---- MODULE Spec2Model ----
(***************************************************************************)
(* Scheduling core of the crawler: the per-origin rate limit controller    *)
(* (pkg/ratelimit), the retrying work queue controller (pkg/queue) and the *)
(* URL frontier (pkg/url), over the Redis and MongoDB primitives they use. *)
(* Each component has its own specification (SpecRate, SpecQueue, SpecURL) *)
(* over the shared initial state; Spec interleaves all three.              *)
(***************************************************************************)
EXTENDS Naturals, Integers, Sequences, FiniteSets, TLC

(***************************************************************************)
(* Bounds of the model                                                     *)
(***************************************************************************)
\* largest burst a limiter is configured with
MaxBurst == 3
\* SetRate calls, adjustment ticks and faulty Allow calls explored in one run
MaxSideOps == 1

\* producer Push calls explored
MaxPush == 2
\* dequeues explored (an item that is retried for ever is cut off here)
MaxAttempts == 4
\* store commands of the queue that fail in one run
MaxQFaults == 1

\* AddURL calls explored
MaxAdds == 4
\* store commands of the frontier that fail, or contexts found cancelled, in one run
MaxUFaults == 1
\* proxy pool operations explored: a URL added twice, removed, and looked up
MaxProxyOps == 4
\* Allow calls and adjustment ticks explored lock by lock
MaxLockCalls == 2
MaxAdjusts == 2
\* task manager: the largest limit, and the StartTask / CancelTask calls explored
MaxTasks == 2
MaxTaskOps == 4

\* clock ticks per second: time.Now() is finer than the second of Unix()
TicksPerSec == 2
\* last clock tick explored: the refill wait 1/r of the slowest rate, 2 s
MaxTime == 2 * TicksPerSec
\* Allow calls explored: a full burst, the call it throttles, the call after the wait
MaxCalls == MaxBurst + 2

Domains == {"a", "b"}

(***************************************************************************)
(* float64 values are modelled as exact rationals <<numerator, denominator>>*)
(* with a positive denominator, kept in lowest terms.                      *)
(***************************************************************************)
RECURSIVE GCD(_, _)
GCD(a, b) == IF b = 0 THEN a ELSE GCD(b, a % b)

Abs(x) == IF x < 0 THEN -x ELSE x

Norm(q) ==
    LET g == GCD(Abs(q[1]), q[2])
    IN  IF q[1] = 0 THEN <<0, 1>> ELSE <<q[1] \div g, q[2] \div g>>

Rat(n) == <<n, 1>>
RAdd(a, b) == Norm(<<a[1] * b[2] + b[1] * a[2], a[2] * b[2]>>)
RSub(a, b) == Norm(<<a[1] * b[2] - b[1] * a[2], a[2] * b[2]>>)
RMul(a, b) == Norm(<<a[1] * b[1], a[2] * b[2]>>)
RLt(a, b) == a[1] * b[2] < b[1] * a[2]
RLe(a, b) == a[1] * b[2] <= b[1] * a[2]

\* func min(a, b float64) / func max(a, b float64)
fmin(a, b) == IF RLt(a, b) THEN a ELSE b
fmax(a, b) == IF RLt(b, a) THEN a ELSE b

(***************************************************************************)
(* State                                                                   *)
(***************************************************************************)
VARIABLES
    now,          \* wall clock, in ticks
    rlConfig,     \* ratelimit.Config of the controller
    limiters,     \* RateLimitController.limiters: origin -> Limiter
    zset,         \* Redis sorted set "<prefix>:<origin>:requests": member -> score
    domainStats,  \* RateLimitMetrics.DomainStats: origin -> DomainStat
    totals,       \* RateLimitMetrics.TotalRequests / ThrottledRequests
    rlBudget,     \* calls the run may still make: Allow calls, side operations
    lastAllow,    \* outcome of the latest Allow call
    passes,       \* per origin, ticks of the calls that passed the distributed check
    epoch,        \* per origin, local-bucket decisions since its limiter was made
    lastAdj,      \* per origin, what the latest adjustment tick did to the rate
    lastOp,       \* the operation just made, with its arguments, until the clock moves
    asked         \* per origin, the seconds at which a request's entry was stored

rlVars == <<now, rlConfig, limiters, zset, domainStats, totals, rlBudget,
            lastAllow, passes, epoch, lastAdj, lastOp, asked>>

VARIABLES
    qConfig,       \* queue.Config: MaxRetries, WorkerCount
    handlers,      \* QueueController.handlers: discriminant -> handler
    pending,       \* Redis list "<prefix>pending": the marshalled QueueItems
    processing,    \* Redis list "<prefix>processing" (never read): the ids pushed
    completedArch, \* MongoDB collection "<coll>_completed"
    failedArch,    \* MongoDB collection "<coll>_failed"
    metricsDocs,   \* MongoDB collection "<coll>_metrics"
    workers,       \* per worker goroutine: position, item held, handler result
    qMetrics,      \* QueueMetrics counters
    closing,       \* Close: "open", "cancelled" (ctx cancelled), "closed"
    nextId,        \* ids handed out by generateID so far
    qBudget,       \* calls the run may still make, and the faults injected
    keysUsed,      \* payload keys the producers have called Push with
    accepted,      \* payload keys whose Push returned nil to the producer
    hist           \* per payload key: dequeues, handler invocations and failures

qVars == <<qConfig, handlers, pending, processing, completedArch, failedArch,
           metricsDocs, workers, qMetrics, closing, nextId, qBudget, keysUsed,
           accepted, hist>>

VARIABLES
    uConfig,      \* url.Config: MaxDepth, MaxPriority
    filters,      \* URLController.filters, in registration order
    urlSet,       \* Redis set "<prefix>:urls"
    buckets,      \* Redis lists "<prefix>:priority:<p>", by priority
    urlRecords,   \* Redis strings "<prefix>:url:<url>" that getURLItem reads
    ucalls,       \* per caller: the AddURL call it is inside, and where
    uLast,        \* per caller: its latest completed call and the result
    uRun,         \* calls the run may still make, and the faults injected
    uLog,         \* successful admissions and hand-outs, in the order they took effect
    okArgs,       \* normalized URL -> depth, priority, filter count of its first admission
    turnedAway    \* normalized URLs an AddURL call rejected for depth or by a filter

uVars == <<uConfig, filters, urlSet, buckets, urlRecords, ucalls, uLast, uRun, uLog, okArgs,
           turnedAway>>

(***************************************************************************)
(* State of the proxy pool                                                 *)
(***************************************************************************)
VARIABLES
    proxies,      \* ProxyPool.proxies, in slice order
    pLeft,        \* calls the run may still make
    pLast         \* the call just made and its argument or result

pVars == <<proxies, pLeft, pLast>>

(***************************************************************************)
(* State of one limiter and the locks around it                            *)
(***************************************************************************)
VARIABLES
    mNow,         \* time.Now(), in ticks
    mLimiter,     \* the origin's Limiter: rate, burst, tokens, lastUpdate
    mStat,        \* the origin's DomainStat: Requests, Throttled
    limMu,        \* holder of Limiter.mu
    rlcMu,        \* holder of RateLimitController.mu
    mAllow,       \* the Allow goroutine: where it is, the rate it read
    mAdjust,      \* the adjustment goroutine: where it is, the rate it will write
    mLeft         \* calls and adjustment ticks the run may still make

mVars == <<mNow, mLimiter, mStat, limMu, rlcMu, mAllow, mAdjust, mLeft>>

(***************************************************************************)
(* State of the task manager                                               *)
(***************************************************************************)
VARIABLES
    tmMax,        \* TaskManager.maxTasks (0 before NewTaskManager)
    tmTasks,      \* TaskManager.tasks: id -> the instance whose cancel is stored
    tmActive,     \* TaskManager.activeTasks
    tmInst,       \* the tasks started, in order: id, context cancelled, goroutine done
    tmLeft,       \* StartTask / CancelTask calls the run may still make
    tmLast        \* the operation just made and its result

tVars == <<tmMax, tmTasks, tmActive, tmInst, tmLeft, tmLast>>

(***************************************************************************)
(* State of the first access to an origin's limiter                        *)
(***************************************************************************)
VARIABLES
    gMap,         \* rlc.limiters[origin]: the instance stored, 0 for none
    gMu,          \* rlc.mu: the goroutine holding the write lock, 0 for none
    gInst,        \* the Limiter instances created, in order
    gCall,        \* per goroutine: where its Allow call is, the limiter it holds
    gAdmitted,    \* requests admitted by limiter.allow() so far
    gLeft         \* Allow calls the run may still make

gVars == <<gMap, gMu, gInst, gCall, gAdmitted, gLeft>>

vars == <<rlVars, qVars, uVars, pVars, mVars, tVars, gVars>>

\* what an operation of one component leaves alone
OnlyRate == UNCHANGED <<qVars, uVars, pVars, mVars, tVars, gVars>>
OnlyQueue == UNCHANGED <<rlVars, uVars, pVars, mVars, tVars, gVars>>
OnlyURL == UNCHANGED <<rlVars, qVars, pVars, mVars, tVars, gVars>>
OnlyProxy == UNCHANGED <<rlVars, qVars, uVars, mVars, tVars, gVars>>
OnlyLocks == UNCHANGED <<rlVars, qVars, uVars, pVars, tVars, gVars>>
OnlyTasks == UNCHANGED <<rlVars, qVars, uVars, pVars, mVars, gVars>>
OnlyGet == UNCHANGED <<rlVars, qVars, uVars, pVars, mVars, tVars>>

(***************************************************************************)
(* Rate limit controller                                                   *)
(***************************************************************************)
\* rates SetRate is called with: below MinRate, at MinRate, above MaxRate
RateValues == {<<1, 2>>, <<1, 1>>, <<3, 1>>}

\* the configurations explored: a binding window limit with the default rate at
\* MinRate, and a window limit that never binds with the default rate inside
\* (MinRate, MaxRate)
RLConfigs ==
    { [DefaultRate |-> c[1], DefaultBurst |-> MaxBurst,
       WindowSize |-> 2, WindowLimit |-> c[2],
       ThrottleThreshold |-> <<1, 2>>,
       MinRate |-> <<1, 1>>, MaxRate |-> <<2, 1>>] :
      c \in {<< <<1, 1>>, 1 >>, << <<3, 2>>, 2 >>} }

\* time.Now().Unix()
Unix(t) == t \div TicksPerSec

\* now.Sub(l.lastUpdate).Seconds()
Seconds(ticks) == Norm(<<ticks, TicksPerSec>>)

\* RedisClient.ZRemRangeByScore: both ends of the score range are inclusive
ZRemRangeByScore(z, lo, hi) ==
    [m \in {x \in DOMAIN z : ~(lo <= z[x] /\ z[x] <= hi)} |-> z[m]]

\* RedisClient.ZAdd: a member already in the set only has its score updated
ZAdd(z, score, member) ==
    [m \in DOMAIN z \cup {member} |-> IF m = member THEN score ELSE z[m]]

\* RedisClient.ZCount: both ends inclusive; the command's error is dropped
\* (.Val() is 0 on error and the method returns a nil error)
ZCount(z, lo, hi, failed) ==
    IF failed THEN 0
    ELSE Cardinality({m \in DOMAIN z : lo <= z[m] /\ z[m] <= hi})

\* Redis LPUSH, used only as the faulty variant of RPush
LPush(list, v) == <<v>> \o list

\* RedisClient.RPush: append at the tail of the list
RPush(list, v) == Append(list, v)

\* fmt.Sprintf("%d", now): the decimal text of the second, one text per second
MemberOf(sec) == ToString(sec)

NewLimiter(rate, burst, t) ==
    [rate |-> rate, burst |-> burst, tokens |-> Rat(burst), lastUpdate |-> t]

\* RateLimitController.getLimiter: the map after the lookup-or-insert
getLimiter(lims, cfg, domain, t) ==
    IF domain \in DOMAIN lims THEN lims
    ELSE [d \in DOMAIN lims \cup {domain} |->
            IF d = domain THEN NewLimiter(cfg.DefaultRate, cfg.DefaultBurst, t)
            ELSE lims[d]]

\* the refill without its cap at burst
LimiterRefillUncapped(l, t) ==
    RAdd(l.tokens, RMul(Seconds(t - l.lastUpdate), l.rate))

\* the admission test with the boundary tokens = 1 excluded
LimiterAdmitsStrict(tokens) == RLt(Rat(1), tokens)

\* Limiter.allow: continuous refill capped at burst, then take one token
LimiterRefill(l, t) ==
    fmin(Rat(l.burst), RAdd(l.tokens, RMul(Seconds(t - l.lastUpdate), l.rate)))

LimiterAdmits(tokens) == RLe(Rat(1), tokens)

LimiterAllow(l, t) ==
    LET refilled == LimiterRefill(l, t)
        ok == LimiterAdmits(refilled)
    IN  [ok |-> ok,
         limiter |-> [l EXCEPT !.tokens = IF ok THEN RSub(refilled, Rat(1)) ELSE refilled,
                               !.lastUpdate = t]]

\* the distributed check that looks at the context only after its store commands
checkDistributedLimitLate(z, cfg, t, ctxDone, fault) ==
    LET nowSec == Unix(t)
        windowStart == nowSec - cfg.WindowSize
        z1 == ZRemRangeByScore(z, 0, windowStart)
        z2 == ZAdd(z1, nowSec, MemberOf(nowSec))
        count == ZCount(z2, windowStart, nowSec, fault = "zcount")
    IN  IF fault = "zrem" THEN [err |-> "store", z |-> z]
        ELSE IF fault = "zadd" THEN [err |-> "store", z |-> z1]
        ELSE IF ctxDone THEN [err |-> "canceled", z |-> z2]
        ELSE IF count > cfg.WindowLimit THEN [err |-> "window", z |-> z2]
        ELSE [err |-> "", z |-> z2]

\* RateLimitController.checkDistributedLimit: the error returned ("" for nil)
\* and the sorted set the store is left with
checkDistributedLimit(z, cfg, t, ctxDone, fault) ==
    LET nowSec == Unix(t)
        windowStart == nowSec - cfg.WindowSize
        z1 == ZRemRangeByScore(z, 0, windowStart)
        z2 == ZAdd(z1, nowSec, MemberOf(nowSec))
        count == ZCount(z2, windowStart, nowSec, fault = "zcount")
    IN  IF ctxDone THEN [err |-> "canceled", z |-> z]
        ELSE IF fault = "zrem" THEN [err |-> "store", z |-> z]
        ELSE IF fault = "zadd" THEN [err |-> "store", z |-> z1]
        ELSE IF count > cfg.WindowLimit THEN [err |-> "window", z |-> z2]
        ELSE [err |-> "", z |-> z2]

\* recordRequest that counts the request for every origin that has a DomainStat
recordRequestShared(stats, domain) ==
    [d \in DOMAIN stats \cup {domain} |->
        IF d \in DOMAIN stats THEN [stats[d] EXCEPT !.Requests = @ + 1]
        ELSE [Requests |-> 1, Throttled |-> 0]]

\* recordRequest: the first recorded request creates the origin's DomainStat
recordRequest(stats, domain) ==
    IF domain \in DOMAIN stats
    THEN [stats EXCEPT ![domain].Requests = @ + 1]
    ELSE [d \in DOMAIN stats \cup {domain} |->
            IF d = domain THEN [Requests |-> 1, Throttled |-> 0] ELSE stats[d]]

\* recordThrottle: counts per origin only when the origin's DomainStat exists
recordThrottle(stats, domain) ==
    IF domain \in DOMAIN stats
    THEN [stats EXCEPT ![domain].Throttled = @ + 1]
    ELSE stats

\* the adjustment with the two factors swapped
AdjustRateSwapped(rate, stat, cfg) ==
    LET throttleRate == <<stat.Throttled, stat.Requests>>
        half == RMul(cfg.ThrottleThreshold, <<1, 2>>)
    IN  IF RLt(cfg.ThrottleThreshold, throttleRate)
        THEN fmax(RMul(rate, <<6, 5>>), cfg.MinRate)
        ELSE IF RLt(throttleRate, half)
        THEN fmin(RMul(rate, <<4, 5>>), cfg.MaxRate)
        ELSE rate

\* startAdaptiveAdjustment, loop body for one limiter that has a DomainStat:
\* throttleRate := Throttled / Requests, compared with the threshold and its half
AdjustRate(rate, stat, cfg) ==
    LET throttleRate == <<stat.Throttled, stat.Requests>>
        half == RMul(cfg.ThrottleThreshold, <<1, 2>>)
    IN  IF RLt(cfg.ThrottleThreshold, throttleRate)
        THEN fmax(RMul(rate, <<4, 5>>), cfg.MinRate)
        ELSE IF RLt(throttleRate, half)
        THEN fmin(RMul(rate, <<6, 5>>), cfg.MaxRate)
        ELSE rate

\* which branch of the adjustment the origin's counters select
AdjustDir(stat, cfg) ==
    LET throttleRate == <<stat.Throttled, stat.Requests>>
        half == RMul(cfg.ThrottleThreshold, <<1, 2>>)
    IN  IF RLt(cfg.ThrottleThreshold, throttleRate) THEN "down"
        ELSE IF RLt(throttleRate, half) THEN "up"
        ELSE "keep"

EmptyMap == [x \in {} |-> 0]

NoAdj == [dir |-> "none", prev |-> <<0, 1>>, next |-> <<0, 1>>]

NoOp == [op |-> "none", domain |-> "", ctxDone |-> FALSE, fault |-> "none",
         rate |-> <<0, 1>>, burst |-> 0]

WindowTicks(cfg) == cfg.WindowSize * TicksPerSec

\* the runs explored: one origin through a whole burst scenario, or two origins
\* with a pair of Allow calls and one side operation
RLRuns ==
    { [origins |-> {"a"}, calls |-> MaxCalls, side |-> 1, bursts |-> 1..MaxBurst,
       faults |-> 0],
      [origins |-> Domains, calls |-> 2, side |-> MaxSideOps, bursts |-> {2},
       faults |-> 0] }

InitRate ==
    /\ now = 0
    /\ rlConfig \in RLConfigs
    /\ limiters = EmptyMap
    /\ zset = [d \in Domains |-> EmptyMap]
    /\ domainStats = EmptyMap
    /\ totals = [TotalRequests |-> 0, ThrottledRequests |-> 0]
    /\ rlBudget \in RLRuns
    /\ lastAllow = [domain |-> "", outcome |-> "none"]
    /\ passes = [d \in Domains |-> <<>>]
    /\ epoch = EmptyMap
    /\ lastAdj = [d \in Domains |-> NoAdj]
    /\ lastOp = NoOp
    /\ asked = [d \in Domains |-> {}]

NewEpoch(t) == [t0 |-> t, log |-> <<>>, clean |-> TRUE]

\* the passes still inside the window of length WindowSize that ends now
Recent(ps, t, cfg) == SelectSeq(ps, LAMBDA x : x > t - WindowTicks(cfg))

\* Allow that consults the local bucket before the distributed check
AllowLocalFirst(domain, ctxDone, fault) ==
    LET lims1 == getLimiter(limiters, rlConfig, domain, now)
        ep1 == IF domain \in DOMAIN epoch THEN epoch
               ELSE [d \in DOMAIN epoch \cup {domain} |->
                        IF d = domain THEN NewEpoch(now) ELSE epoch[d]]
        chk == checkDistributedLimit(zset[domain], rlConfig, now, ctxDone, fault)
        la == LimiterAllow(lims1[domain], now)
        outcome == IF chk.err # "" THEN chk.err
                   ELSE IF la.ok THEN "ok" ELSE "local"
        faulty == ctxDone \/ fault # "none"
    IN  /\ rlBudget.calls > 0
        /\ domain \in rlBudget.origins
        /\ faulty => rlBudget.side > 0
        /\ rlBudget' = [rlBudget EXCEPT !.calls = @ - 1,
                                        !.side = IF faulty THEN @ - 1 ELSE @,
                                        !.faults = IF faulty THEN @ + 1 ELSE @]
        /\ zset' = [zset EXCEPT ![domain] = chk.z]
        /\ limiters' = [lims1 EXCEPT ![domain] = la.limiter]
        /\ domainStats' = IF outcome = "ok" THEN recordRequest(domainStats, domain)
                          ELSE recordThrottle(domainStats, domain)
        /\ totals' = IF outcome = "ok"
                     THEN [totals EXCEPT !.TotalRequests = @ + 1]
                     ELSE [totals EXCEPT !.ThrottledRequests = @ + 1]
        /\ lastAllow' = [domain |-> domain, outcome |-> outcome]
        /\ passes' = IF chk.err = ""
                     THEN [passes EXCEPT ![domain] =
                              Append(Recent(@, now, rlConfig), now)]
                     ELSE passes
        /\ epoch' = IF chk.err = "" /\ Len(ep1[domain].log) < lims1[domain].burst + 2
                    THEN [ep1 EXCEPT ![domain].log =
                             Append(@, [dt |-> now - ep1[domain].t0, ok |-> la.ok])]
                    ELSE ep1
        /\ lastOp' = [NoOp EXCEPT !.op = "allow", !.domain = domain,
                                  !.ctxDone = ctxDone, !.fault = fault]
        /\ asked' = IF ctxDone \/ fault \in {"zrem", "zadd"} THEN asked
                    ELSE [asked EXCEPT ![domain] = @ \cup {Unix(now)}]
        /\ UNCHANGED <<now, rlConfig, lastAdj>>
        /\ OnlyRate

\* RateLimitController.Allow
Allow(domain, ctxDone, fault) ==
    LET lims1 == getLimiter(limiters, rlConfig, domain, now)
        ep1 == IF domain \in DOMAIN epoch THEN epoch
               ELSE [d \in DOMAIN epoch \cup {domain} |->
                        IF d = domain THEN NewEpoch(now) ELSE epoch[d]]
        chk == checkDistributedLimit(zset[domain], rlConfig, now, ctxDone, fault)
        la == LimiterAllow(lims1[domain], now)
        outcome == IF chk.err # "" THEN chk.err
                   ELSE IF la.ok THEN "ok" ELSE "local"
        faulty == ctxDone \/ fault # "none"
    IN  /\ rlBudget.calls > 0
        /\ domain \in rlBudget.origins
        /\ faulty => rlBudget.side > 0
        /\ rlBudget' = [rlBudget EXCEPT !.calls = @ - 1,
                                        !.side = IF faulty THEN @ - 1 ELSE @,
                                        !.faults = IF faulty THEN @ + 1 ELSE @]
        /\ zset' = [zset EXCEPT ![domain] = chk.z]
        /\ limiters' = IF chk.err # "" THEN lims1
                       ELSE [lims1 EXCEPT ![domain] = la.limiter]
        /\ domainStats' = IF outcome = "ok" THEN recordRequest(domainStats, domain)
                          ELSE recordThrottle(domainStats, domain)
        /\ totals' = IF outcome = "ok"
                     THEN [totals EXCEPT !.TotalRequests = @ + 1]
                     ELSE [totals EXCEPT !.ThrottledRequests = @ + 1]
        /\ lastAllow' = [domain |-> domain, outcome |-> outcome]
        /\ passes' = IF chk.err = ""
                     THEN [passes EXCEPT ![domain] =
                              Append(Recent(@, now, rlConfig), now)]
                     ELSE passes
        /\ epoch' = IF chk.err = "" /\ Len(ep1[domain].log) < lims1[domain].burst + 2
                    THEN [ep1 EXCEPT ![domain].log =
                             Append(@, [dt |-> now - ep1[domain].t0, ok |-> la.ok])]
                    ELSE ep1
        /\ lastOp' = [NoOp EXCEPT !.op = "allow", !.domain = domain,
                                  !.ctxDone = ctxDone, !.fault = fault]
        /\ asked' = IF ctxDone \/ fault \in {"zrem", "zadd"} THEN asked
                    ELSE [asked EXCEPT ![domain] = @ \cup {Unix(now)}]
        /\ UNCHANGED <<now, rlConfig, lastAdj>>
        /\ OnlyRate

\* SetRate that updates rate and burst of a limiter it finds and keeps its tokens
SetRateKeepsTokens(domain, rate, burst) ==
    /\ rlBudget.side > 0
    /\ domain \in rlBudget.origins /\ burst \in rlBudget.bursts
    /\ rlBudget' = [rlBudget EXCEPT !.side = @ - 1]
    /\ limiters' = [d \in DOMAIN limiters \cup {domain} |->
                      IF d # domain THEN limiters[d]
                      ELSE IF d \in DOMAIN limiters
                      THEN [limiters[d] EXCEPT !.rate = rate, !.burst = burst,
                                               !.tokens = fmin(@, Rat(burst))]
                      ELSE NewLimiter(rate, burst, now)]
    /\ epoch' = [d \in DOMAIN epoch \cup {domain} |->
                      IF d = domain THEN NewEpoch(now) ELSE epoch[d]]
    /\ lastOp' = [NoOp EXCEPT !.op = "set", !.domain = domain, !.rate = rate,
                              !.burst = burst]
    /\ UNCHANGED <<now, rlConfig, zset, domainStats, totals, lastAllow, passes, lastAdj,
                   asked>>
    /\ OnlyRate

\* RateLimitController.SetRate
SetRate(domain, rate, burst) ==
    /\ rlBudget.side > 0
    /\ domain \in rlBudget.origins /\ burst \in rlBudget.bursts
    /\ rlBudget' = [rlBudget EXCEPT !.side = @ - 1]
    /\ limiters' = [d \in DOMAIN limiters \cup {domain} |->
                      IF d = domain THEN NewLimiter(rate, burst, now) ELSE limiters[d]]
    /\ epoch' = [d \in DOMAIN epoch \cup {domain} |->
                      IF d = domain THEN NewEpoch(now) ELSE epoch[d]]
    /\ lastOp' = [NoOp EXCEPT !.op = "set", !.domain = domain, !.rate = rate,
                              !.burst = burst]
    /\ UNCHANGED <<now, rlConfig, zset, domainStats, totals, lastAllow, passes, lastAdj,
                   asked>>
    /\ OnlyRate

\* one tick of startAdaptiveAdjustment: every limiter whose origin has a DomainStat
AdjustTick ==
    LET touched == DOMAIN limiters \cap DOMAIN domainStats
    IN  /\ rlBudget.side > 0
        /\ rlBudget' = [rlBudget EXCEPT !.side = @ - 1]
        /\ limiters' = [d \in DOMAIN limiters |->
                          IF d \in touched
                          THEN [limiters[d] EXCEPT
                                  !.rate = AdjustRate(@, domainStats[d], rlConfig)]
                          ELSE limiters[d]]
        /\ lastAdj' = [d \in Domains |->
                          IF d \in touched
                          THEN [dir |-> AdjustDir(domainStats[d], rlConfig),
                                prev |-> limiters[d].rate,
                                next |-> AdjustRate(limiters[d].rate, domainStats[d],
                                                    rlConfig)]
                          ELSE NoAdj]
        /\ epoch' = [d \in DOMAIN epoch |->
                          IF d \in touched /\ limiters'[d].rate # limiters[d].rate
                          THEN [epoch[d] EXCEPT !.clean = FALSE]
                          ELSE epoch[d]]
        /\ lastOp' = [NoOp EXCEPT !.op = "adjust"]
        /\ UNCHANGED <<now, rlConfig, zset, domainStats, totals, lastAllow, passes, asked>>
        /\ OnlyRate

\* the wall clock advances
Tick ==
    /\ now < MaxTime
    /\ now' = now + 1
    /\ lastAdj' = [d \in Domains |-> NoAdj]
    /\ lastOp' = NoOp
    /\ UNCHANGED <<rlConfig, limiters, zset, domainStats, totals, rlBudget,
                   lastAllow, passes, epoch, asked>>
    /\ OnlyRate

AllowFaults == {"none", "zrem", "zadd", "zcount"}

NextRate ==
    \/ \E d \in Domains, f \in AllowFaults : Allow(d, FALSE, f)
    \/ \E d \in Domains : Allow(d, TRUE, "none")
    \/ \E d \in Domains, r \in RateValues, b \in 1..MaxBurst : SetRate(d, r, b)
    \/ AdjustTick
    \/ Tick


(***************************************************************************)
(* Work queue controller                                                   *)
(*                                                                         *)
(* The asynchronous upsert of persistToMongo into the main collection is   *)
(* fire-and-forget and the collection is never read back by the queue, so  *)
(* it carries no state here; AverageTime is left out for the same reason.  *)
(***************************************************************************)
Workers == 1..2

\* discriminants of the payloads pushed: one that handlers are registered for,
\* and a payload that carries no "type" field
DataTypes == {"page", ""}

HandlerKinds == {"succeed", "fail"}

QConfigs == { [MaxRetries |-> n, WorkerCount |-> Cardinality(Workers)] : n \in 0..2 }

NoItem == [id |-> 0, data |-> [key |-> 0, type |-> ""], retries |-> 0, status |-> ""]

IdleWorker == [pc |-> "idle", item |-> NoItem, err |-> ""]

NoHist == [attempts |-> 0, invocations |-> 0, failures |-> 0]

\* the runs explored: retries and ordering without faults; store commands that
\* fail; shutdown while items are being processed
QRuns ==
    { [pushes |-> MaxPush, attempts |-> MaxAttempts, regs |-> 1,
       faultsLeft |-> 0, mayClose |-> FALSE, faults |-> 0],
      [pushes |-> MaxPush, attempts |-> 2, regs |-> 1,
       faultsLeft |-> MaxQFaults, mayClose |-> FALSE, faults |-> 0],
      [pushes |-> 1, attempts |-> 2, regs |-> 2,
       faultsLeft |-> 0, mayClose |-> TRUE, faults |-> 0] }

InitQueue ==
    /\ qConfig \in QConfigs
    /\ handlers = EmptyMap
    /\ pending = <<>>
    /\ processing = {}
    /\ completedArch = {}
    /\ failedArch = {}
    /\ metricsDocs = <<>>
    /\ workers = [w \in Workers |-> IdleWorker]
    /\ qMetrics = [TotalItems |-> 0, ProcessedItems |-> 0, FailedItems |-> 0]
    /\ closing = "open"
    /\ nextId = 0
    /\ qBudget \in QRuns
    /\ accepted = {}
    /\ keysUsed = {}
    /\ hist = [k \in 1..MaxPush |-> NoHist]

\* a store command may fail while the run has faults left to inject
CanFail(fault) == fault => qBudget.faultsLeft > 0

Spend(budget, fault) ==
    [budget EXCEPT !.faults = IF fault THEN @ + 1 ELSE @,
                   !.faultsLeft = IF fault THEN @ - 1 ELSE @]

\* the QueueItem Push builds: a fresh id, status pending, Retries left at zero
NewItem(id, data) == [id |-> id, data |-> data, retries |-> 0, status |-> "pending"]

\* the push that puts the entry at the head of the pending list
PushItemAtHead(list, id, data, fault) ==
    IF fault THEN list ELSE <<NewItem(id, data)>> \o list

\* QueueController.Push / saveToRedis: RPush at the tail of the pending list;
\* when RPush fails the error is returned and nothing is appended
PushItem(list, id, data, fault) ==
    IF fault THEN list ELSE RPush(list, NewItem(id, data))

\* Push called by a producer with a new payload
Push(ty, fault) ==
    LET key == Cardinality(keysUsed) + 1
        data == [key |-> key, type |-> ty]
    IN  /\ qBudget.pushes > 0
        /\ CanFail(fault)
        /\ qBudget' = [Spend(qBudget, fault) EXCEPT !.pushes = @ - 1]
        /\ nextId' = nextId + 1
        /\ pending' = PushItem(pending, nextId + 1, data, fault)
        /\ accepted' = IF fault THEN accepted ELSE accepted \cup {key}
        /\ keysUsed' = keysUsed \cup {key}
        /\ UNCHANGED <<qConfig, handlers, processing, completedArch, failedArch,
                       metricsDocs, workers, qMetrics, closing, hist>>
        /\ OnlyQueue

\* QueueController.RegisterHandler: a later registration replaces the earlier one
RegisterHandler(ty, kind) ==
    /\ ty # ""
    /\ qBudget.regs > 0
    /\ qBudget' = [qBudget EXCEPT !.regs = @ - 1]
    /\ handlers' = [t \in DOMAIN handlers \cup {ty} |->
                       IF t = ty THEN kind ELSE handlers[t]]
    /\ UNCHANGED <<qConfig, pending, processing, completedArch, failedArch,
                   metricsDocs, workers, qMetrics, closing, nextId, keysUsed, accepted, hist>>
    /\ OnlyQueue

\* worker loop that polls the store without looking at the context
WorkerPollUnchecked(w) ==
    /\ workers[w].pc = "idle"
    /\ workers' = [workers EXCEPT ![w].pc = "polling"]
    /\ UNCHANGED <<qConfig, handlers, pending, processing, completedArch, failedArch,
                   metricsDocs, qMetrics, closing, nextId, qBudget, keysUsed, accepted, hist>>
    /\ OnlyQueue

\* worker loop, top of an iteration: the select finds ctx not done and takes
\* the default branch
WorkerPoll(w) ==
    /\ workers[w].pc = "idle"
    /\ closing = "open"
    /\ workers' = [workers EXCEPT ![w].pc = "polling"]
    /\ UNCHANGED <<qConfig, handlers, pending, processing, completedArch, failedArch,
                   metricsDocs, qMetrics, closing, nextId, qBudget, keysUsed, accepted, hist>>
    /\ OnlyQueue

\* worker loop, default branch: getNextItem returns an error (the list is
\* empty, or the LPop failed); the worker sleeps a second and loops
WorkerMiss(w) ==
    /\ workers[w].pc = "polling"
    /\ pending = <<>> \/ qBudget.attempts = 0
    /\ workers' = [workers EXCEPT ![w].pc = "idle"]
    /\ UNCHANGED <<qConfig, handlers, pending, processing, completedArch, failedArch,
                   metricsDocs, qMetrics, closing, nextId, qBudget, keysUsed, accepted, hist>>
    /\ OnlyQueue

\* getNextItem that reads the head of the pending list and leaves it there
WorkerPopPeeks(w) ==
    /\ workers[w].pc = "polling"
    /\ pending # <<>>
    /\ qBudget.attempts > 0
    /\ qBudget' = [qBudget EXCEPT !.attempts = @ - 1]
    /\ workers' = [workers EXCEPT ![w] = [pc |-> "popped", item |-> Head(pending),
                                          err |-> ""]]
    /\ hist' = [hist EXCEPT ![Head(pending).data.key].attempts = @ + 1]
    /\ UNCHANGED <<qConfig, handlers, pending, processing, completedArch, failedArch,
                   metricsDocs, qMetrics, closing, nextId, keysUsed, accepted>>
    /\ OnlyQueue

\* worker loop, default branch: getNextItem pops the head of the pending list
WorkerPop(w) ==
    /\ workers[w].pc = "polling"
    /\ pending # <<>>
    /\ qBudget.attempts > 0
    /\ qBudget' = [qBudget EXCEPT !.attempts = @ - 1]
    /\ workers' = [workers EXCEPT ![w] = [pc |-> "popped", item |-> Head(pending),
                                          err |-> ""]]
    /\ pending' = Tail(pending)
    /\ hist' = [hist EXCEPT ![Head(pending).data.key].attempts = @ + 1]
    /\ UNCHANGED <<qConfig, handlers, processing, completedArch, failedArch,
                   metricsDocs, qMetrics, closing, nextId, keysUsed, accepted>>
    /\ OnlyQueue

\* worker loop, ctx done: the goroutine returns
WorkerExit(w) ==
    /\ workers[w].pc = "idle"
    /\ closing # "open"
    /\ workers' = [workers EXCEPT ![w].pc = "exited"]
    /\ UNCHANGED <<qConfig, handlers, pending, processing, completedArch, failedArch,
                   metricsDocs, qMetrics, closing, nextId, qBudget, keysUsed, accepted, hist>>
    /\ OnlyQueue

\* QueueController.getHandler: the handler of the item's discriminant, if any
getHandler(hs, item) ==
    IF item.data.type # "" /\ item.data.type \in DOMAIN hs
    THEN hs[item.data.type] ELSE "none"

\* QueueController.processItem up to the handler call: status processing,
\* updateItem (RPush to the list of that status), handler lookup
WorkerBegin(w, fault) ==
    LET item == [workers[w].item EXCEPT !.status = "processing"]
        h == getHandler(handlers, item)
    IN  /\ workers[w].pc = "popped"
        /\ CanFail(fault)
        /\ qBudget' = Spend(qBudget, fault)
        /\ processing' = IF fault THEN processing ELSE processing \cup {item.id}
        /\ workers' = [workers EXCEPT ![w] =
                          IF fault THEN [pc |-> "failing", item |-> item, err |-> "store"]
                          ELSE IF h = "none"
                          THEN [pc |-> "failing", item |-> item, err |-> "nohandler"]
                          ELSE [pc |-> "running", item |-> item, err |-> h]]
        /\ hist' = IF ~fault /\ h # "none"
                   THEN [hist EXCEPT ![item.data.key].invocations = @ + 1]
                   ELSE hist
        /\ UNCHANGED <<qConfig, handlers, pending, completedArch, failedArch,
                       metricsDocs, qMetrics, closing, nextId, keysUsed, accepted>>
        /\ OnlyQueue

\* handleFailure, the retry decision: the item's Retries after the increment
\* is compared with MaxRetries
ShouldRetry(item, cfg) == item.retries + 1 < cfg.MaxRetries

\* handleFailure that writes the failure record also when it retries
HandleFailureArchivesRetry(w, fault) ==
    LET item == [workers[w].item EXCEPT !.status = "failed", !.retries = @ + 1]
    IN  /\ IF ShouldRetry(workers[w].item, qConfig)
           THEN /\ nextId' = nextId + 1
                /\ pending' = PushItem(pending, nextId + 1, item.data, fault)
                /\ failedArch' = IF fault THEN failedArch ELSE failedArch \cup {item}
           ELSE /\ failedArch' = IF fault THEN failedArch ELSE failedArch \cup {item}
                /\ UNCHANGED <<nextId, pending>>
        /\ qMetrics' = [qMetrics EXCEPT !.FailedItems = @ + 1, !.TotalItems = @ + 1]
        /\ UNCHANGED completedArch

\* QueueController.handleFailure followed by updateMetrics
HandleFailure(w, fault) ==
    LET item == [workers[w].item EXCEPT !.status = "failed", !.retries = @ + 1]
    IN  /\ IF ShouldRetry(workers[w].item, qConfig)
           THEN /\ nextId' = nextId + 1
                /\ pending' = PushItem(pending, nextId + 1, item.data, fault)
                /\ UNCHANGED failedArch
           ELSE /\ failedArch' = IF fault THEN failedArch ELSE failedArch \cup {item}
                /\ UNCHANGED <<nextId, pending>>
        /\ qMetrics' = [qMetrics EXCEPT !.FailedItems = @ + 1, !.TotalItems = @ + 1]
        /\ UNCHANGED completedArch

\* handleSuccess that also enqueues the item again
HandleSuccessRequeues(w, fault) ==
    LET item == [workers[w].item EXCEPT !.status = "completed"]
    IN  /\ completedArch' = IF fault THEN completedArch ELSE completedArch \cup {item}
        /\ qMetrics' = [qMetrics EXCEPT !.ProcessedItems = @ + 1, !.TotalItems = @ + 1]
        /\ nextId' = nextId + 1
        /\ pending' = PushItem(pending, nextId + 1, item.data, fault)
        /\ UNCHANGED failedArch

\* QueueController.handleSuccess followed by updateMetrics
HandleSuccess(w, fault) ==
    LET item == [workers[w].item EXCEPT !.status = "completed"]
    IN  /\ completedArch' = IF fault THEN completedArch ELSE completedArch \cup {item}
        /\ qMetrics' = [qMetrics EXCEPT !.ProcessedItems = @ + 1, !.TotalItems = @ + 1]
        /\ UNCHANGED <<nextId, pending, failedArch>>

\* the handler returns (or processItem failed before it) and the worker routes
\* the outcome; the store command of that routing may fail, which is ignored
WorkerFinish(w, fault) ==
    LET failed == workers[w].pc = "failing" \/ workers[w].err = "fail"
    IN  /\ workers[w].pc \in {"running", "failing"}
        /\ CanFail(fault)
        /\ qBudget' = Spend(qBudget, fault)
        /\ IF failed THEN HandleFailure(w, fault) ELSE HandleSuccess(w, fault)
        /\ hist' = IF workers[w].pc = "running" /\ failed
                   THEN [hist EXCEPT ![workers[w].item.data.key].failures = @ + 1]
                   ELSE hist
        /\ workers' = [workers EXCEPT ![w] = IdleWorker]
        /\ UNCHANGED <<qConfig, handlers, processing, metricsDocs, closing, keysUsed, accepted>>
        /\ OnlyQueue

\* QueueController.Close: cancel the shared context ...
CloseCancel ==
    /\ closing = "open"
    /\ qBudget.mayClose
    /\ closing' = "cancelled"
    /\ UNCHANGED <<qConfig, handlers, pending, processing, completedArch, failedArch,
                   metricsDocs, workers, qMetrics, nextId, qBudget, keysUsed, accepted, hist>>
    /\ OnlyQueue

\* Close that waits for the worker goroutines before it persists
ClosePersistJoins(fault) ==
    /\ closing = "cancelled"
    /\ \A w \in Workers : workers[w].pc = "exited"
    /\ CanFail(fault)
    /\ qBudget' = Spend(qBudget, fault)
    /\ closing' = "closed"
    /\ metricsDocs' = IF fault THEN metricsDocs ELSE Append(metricsDocs, qMetrics)
    /\ UNCHANGED <<qConfig, handlers, pending, processing, completedArch, failedArch,
                   workers, qMetrics, nextId, keysUsed, accepted, hist>>
    /\ OnlyQueue

\* ... and, after the fixed one-second sleep, persistMetrics
ClosePersist(fault) ==
    /\ closing = "cancelled"
    /\ CanFail(fault)
    /\ qBudget' = Spend(qBudget, fault)
    /\ closing' = "closed"
    /\ metricsDocs' = IF fault THEN metricsDocs ELSE Append(metricsDocs, qMetrics)
    /\ UNCHANGED <<qConfig, handlers, pending, processing, completedArch, failedArch,
                   workers, qMetrics, nextId, keysUsed, accepted, hist>>
    /\ OnlyQueue

NextQueue ==
    \/ \E ty \in DataTypes, f \in BOOLEAN : Push(ty, f)
    \/ \E ty \in DataTypes, k \in HandlerKinds : RegisterHandler(ty, k)
    \/ \E w \in Workers : WorkerPoll(w)
    \/ \E w \in Workers : WorkerMiss(w)
    \/ \E w \in Workers : WorkerPop(w)
    \/ \E w \in Workers : WorkerExit(w)
    \/ \E w \in Workers, f \in BOOLEAN : WorkerBegin(w, f)
    \/ \E w \in Workers, f \in BOOLEAN : WorkerFinish(w, f)
    \/ CloseCancel
    \/ \E f \in BOOLEAN : ClosePersist(f)

\* the steps of worker w's goroutine up to the handler call
WorkerUntilHandler(w) ==
    \/ WorkerPoll(w)
    \/ WorkerMiss(w)
    \/ WorkerPop(w)
    \/ WorkerExit(w)
    \/ \E f \in BOOLEAN : WorkerBegin(w, f)

\* every step of worker w's goroutine, the return of the handler included
WorkerLoop(w) ==
    \/ WorkerUntilHandler(w)
    \/ \E f \in BOOLEAN : WorkerFinish(w, f)

\* Close runs on once called: cancel, sleep, persistMetrics
CloseRuns == \E f \in BOOLEAN : ClosePersist(f)

(***************************************************************************)
(* URL frontier                                                            *)
(*                                                                         *)
(* AddURL and GetNextURL are sequences of store commands with no lock      *)
(* around them, so each command is a step of its own and the commands of   *)
(* concurrent calls interleave.  A call completes in the step of its last  *)
(* command.                                                                *)
(***************************************************************************)
Callers == 1..2

\* a raw URL as url.Parse sees it: what precedes the path, the path, the
\* fragment, and whether parsing fails
RawURL(path, fragment, bad) ==
    [base |-> "http://h", path |-> path, fragment |-> fragment, bad |-> bad]

\* raw URLs that normalize to pairwise different strings
PlainRaw(k) == RawURL("/" \o ToString(k), "", FALSE)

PlainRaws == { PlainRaw(k) : k \in 1..MaxAdds }

\* raw URLs that normalize to one string
GoodAliasRaws == { RawURL("", "", FALSE), RawURL("/", "f", FALSE) }

\* the same, and one that does not parse
AliasRaws == GoodAliasRaws \cup { RawURL("/%zz", "", TRUE) }

\* the normalized URLs a status update is asked for: one that can have been
\* admitted, one that never was
URLStrings == { "http://h/", "http://h/x" }

Priorities == 0..6

UConfigs == { [MaxDepth |-> 1, MaxPriority |-> 5] }

\* URL.String()
URLString(u) ==
    u.base \o u.path \o (IF u.fragment = "" THEN "" ELSE "#" \o u.fragment)

\* URLController.normalizeURL: parse, drop the fragment, default the path to "/"
normalizeURL(raw) ==
    IF raw.bad THEN [err |-> TRUE, url |-> ""]
    ELSE [err |-> FALSE,
          url |-> URLString([raw EXCEPT !.fragment = "",
                                        !.path = IF @ = "" THEN "/" ELSE @])]

\* the membership test with a key nothing is ever added under
existsNowhere(set, url) == FALSE

\* URLController.exists: SIsMember on the dedup set
exists(set, url) == url \in set

\* the filters registered: "shallow" admits depth 0 only, "urgent" admits
\* priority 1 and above only
FilterKinds == {"shallow", "urgent"}

\* Filter.Allow of the filter kind registered
FilterAllows(kind, item) ==
    /\ kind = "shallow" => item.depth = 0
    /\ kind = "urgent" => item.priority >= 1

\* AddURL, the filter loop: the first veto rejects
PassesFilters(fs, item) == \A i \in 1..Len(fs) : FilterAllows(fs[i], item)

\* AddURL, the filter loop: the number of filters whose Allow is called, which
\* is the position of the first veto, or all of them
RECURSIVE Consulted(_, _)
Consulted(fs, item) ==
    IF fs = <<>> THEN 0
    ELSE IF ~FilterAllows(Head(fs), item) THEN 1
    ELSE 1 + Consulted(Tail(fs), item)

\* URLController.getURLByPriority: the context check, then LPop of one bucket;
\* an empty list is redis.Nil; the item is built from the URL popped and the
\* priority asked for, its Depth left at the zero value
getURLByPriority(bk, priority, fault) ==
    IF fault # "none" THEN [err |-> fault, url |-> "", depth |-> 0]
    ELSE IF bk[priority] = <<>> THEN [err |-> "nil", url |-> "", depth |-> 0]
    ELSE [err |-> "", url |-> Head(bk[priority]), depth |-> 0]

\* the scan begun at the lowest priority
ScanStartLow(cfg) == 0

\* GetNextURL, the loop header: priority := MaxPriority
ScanStart(cfg) == cfg.MaxPriority

\* GetNextURL, the loop header: priority >= 0; priority--
ScanNext(priority) == priority - 1

ScanOver(priority) == priority < 0

NoItemURL == [url |-> "", depth |-> 0, priority |-> 0, status |-> ""]

\* a caller outside any call; inside AddURL: the item, the number of filters
\* it passed, whether the call began
\* after an admission of its URL (afterOk) with the same arguments (repeat);
\* inside GetNextURL: the priority the scan is at, the priorities it found
\* empty, whether a command of the call failed, and the number of admissions
\* when the call began
IdleCall == [pc |-> "idle", item |-> NoItemURL, nfilters |-> 0, afterOk |-> FALSE,
             repeat |-> FALSE, scan |-> 0, seen |-> {}, faulty |-> FALSE, addsAtStart |-> 0]

NoCall == [op |-> "none", url |-> "", result |-> "", priority |-> 0,
           depth |-> 0, nfilters |-> 0, consulted |-> 0,
           afterOk |-> FALSE, repeat |-> FALSE, faulty |-> FALSE,
           seen |-> {}, quiet |-> FALSE, higherEmpty |-> FALSE]

\* the runs explored: one caller submitting a new URL in every call, at any
\* priority, and consuming them; two callers adding and consuming two URLs,
\* one of them under two spellings; one caller meeting filters, depth limits,
\* failing store commands and cancelled contexts; one caller submitting one
\* URL at several depths and priorities while filters are registered
URuns ==
    { [callers |-> {1}, raws |-> PlainRaws, fresh |-> TRUE, prios |-> {1, 3, 5},
       depths |-> {0}, adds |-> MaxAdds, faultsLeft |-> 0, filtersLeft |-> 0,
       statusLeft |-> 0, faults |-> 0,
       kinds |-> {}],
      [callers |-> Callers, raws |-> GoodAliasRaws \cup {PlainRaw(1)}, fresh |-> FALSE,
       prios |-> {2, 4}, depths |-> {0}, adds |-> 2, faultsLeft |-> 0,
       filtersLeft |-> 0, statusLeft |-> 0, faults |-> 0,
       kinds |-> {}],
      [callers |-> {2}, raws |-> AliasRaws, fresh |-> FALSE, prios |-> {0, 6},
       depths |-> {1, 2}, adds |-> 3, faultsLeft |-> MaxUFaults, filtersLeft |-> 1,
       statusLeft |-> 1, faults |-> 0,
       kinds |-> {"shallow"}],
      [callers |-> {1}, raws |-> {RawURL("", "", FALSE)}, fresh |-> FALSE,
       prios |-> {0, 1}, depths |-> {0, 1, 2}, adds |-> 3, faultsLeft |-> 0,
       filtersLeft |-> 2, statusLeft |-> 0, faults |-> 0,
       kinds |-> FilterKinds] }

\* the arguments AddURL is called with: raw URL, depth, priority
AddInputs == UNION { r.raws \X r.depths \X r.prios : r \in URuns }

\* what makes a store command return an error
StoreFaults == {"none", "canceled", "store"}

InitURL ==
    /\ uConfig \in UConfigs
    /\ filters = <<>>
    /\ urlSet = {}
    /\ buckets = [pr \in Priorities |-> <<>>]
    /\ urlRecords = EmptyMap
    /\ ucalls = [c \in Callers |-> IdleCall]
    /\ uLast = [c \in Callers |-> NoCall]
    /\ uRun \in URuns
    /\ uLog = <<>>
    /\ okArgs = EmptyMap
    /\ turnedAway = {}

UCanFail(fault) == fault # "none" => uRun.faultsLeft > 0

USpend(run, fault) ==
    [run EXCEPT !.faults = IF fault # "none" THEN @ + 1 ELSE @,
                !.faultsLeft = IF fault # "none" THEN @ - 1 ELSE @]

Admissions(log) == SelectSeq(log, LAMBDA e : e.op = "add")

HandOuts(log) == SelectSeq(log, LAMBDA e : e.op = "get")

\* the outcome of an AddURL call of caller c
Added(c, url, result, faulty) ==
    [NoCall EXCEPT !.op = "add", !.url = url, !.result = result,
                   !.priority = ucalls[c].item.priority,
                   !.depth = ucalls[c].item.depth,
                   !.nfilters = ucalls[c].nfilters,
                   !.consulted = ucalls[c].nfilters,
                   !.afterOk = ucalls[c].afterOk, !.repeat = ucalls[c].repeat,
                   !.faulty = faulty]

\* AddURL that tests membership in the dedup set before depth and filters
AddStartDedupFirst(c, raw, depth, priority, fault) ==
    LET n == normalizeURL(raw)
        item == [url |-> n.url, depth |-> depth, priority |-> priority,
                 status |-> "pending"]
        result == IF n.err THEN "malformed"
                  ELSE IF fault # "none" THEN fault
                  ELSE IF exists(urlSet, n.url) THEN "duplicate"
                  ELSE IF depth > uConfig.MaxDepth THEN "depth"
                  ELSE IF ~PassesFilters(filters, item) THEN "filtered"
                  ELSE ""
        consulted == IF result \in {"malformed", "depth"} THEN 0
                     ELSE Consulted(filters, item)
        afterOk == n.url \in DOMAIN okArgs
        repeat == /\ afterOk
                  /\ okArgs[n.url] = [depth |-> depth, priority |-> priority,
                                      filters |-> Len(filters)]
    IN  /\ ucalls[c].pc = "idle"
        /\ c \in uRun.callers /\ raw \in uRun.raws
        /\ depth \in uRun.depths /\ priority \in uRun.prios
        /\ uRun.fresh => raw = PlainRaw(MaxAdds - uRun.adds + 1)
        /\ uRun.adds > 0
        /\ UCanFail(fault)
        /\ uRun' = [USpend(uRun, fault) EXCEPT !.adds = @ - 1]
        /\ IF result = ""
           THEN /\ ucalls' = [ucalls EXCEPT ![c] =
                                [IdleCall EXCEPT !.pc = "checked", !.item = item,
                                                 !.nfilters = Len(filters),
                                                 !.afterOk = afterOk,
                                                 !.repeat = repeat]]
                /\ UNCHANGED uLast
           ELSE /\ uLast' = [uLast EXCEPT ![c] =
                                [NoCall EXCEPT !.op = "add", !.url = n.url,
                                               !.result = result,
                                               !.priority = priority,
                                               !.depth = depth,
                                               !.nfilters = Len(filters),
                                               !.consulted = consulted,
                                               !.afterOk = afterOk,
                                               !.repeat = repeat,
                                               !.faulty = fault # "none"]]
                /\ UNCHANGED ucalls
        /\ turnedAway' = IF result \in {"depth", "filtered"}
                         THEN turnedAway \cup {n.url} ELSE turnedAway
        /\ UNCHANGED <<uConfig, filters, urlSet, buckets, urlRecords, uLog, okArgs>>
        /\ OnlyURL

\* AddURL up to the membership test: normalize, depth limit, filters, exists
AddStart(c, raw, depth, priority, fault) ==
    LET n == normalizeURL(raw)
        item == [url |-> n.url, depth |-> depth, priority |-> priority,
                 status |-> "pending"]
        result == IF n.err THEN "malformed"
                  ELSE IF depth > uConfig.MaxDepth THEN "depth"
                  ELSE IF ~PassesFilters(filters, item) THEN "filtered"
                  ELSE IF fault # "none" THEN fault
                  ELSE IF exists(urlSet, n.url) THEN "duplicate"
                  ELSE ""
        consulted == IF result \in {"malformed", "depth"} THEN 0
                     ELSE Consulted(filters, item)
        afterOk == n.url \in DOMAIN okArgs
        repeat == /\ afterOk
                  /\ okArgs[n.url] = [depth |-> depth, priority |-> priority,
                                      filters |-> Len(filters)]
    IN  /\ ucalls[c].pc = "idle"
        /\ c \in uRun.callers /\ raw \in uRun.raws
        /\ depth \in uRun.depths /\ priority \in uRun.prios
        /\ uRun.fresh => raw = PlainRaw(MaxAdds - uRun.adds + 1)
        /\ uRun.adds > 0
        /\ UCanFail(fault)
        /\ uRun' = [USpend(uRun, fault) EXCEPT !.adds = @ - 1]
        /\ IF result = ""
           THEN /\ ucalls' = [ucalls EXCEPT ![c] =
                                [IdleCall EXCEPT !.pc = "checked", !.item = item,
                                                 !.nfilters = Len(filters),
                                                 !.afterOk = afterOk,
                                                 !.repeat = repeat]]
                /\ UNCHANGED uLast
           ELSE /\ uLast' = [uLast EXCEPT ![c] =
                                [NoCall EXCEPT !.op = "add", !.url = n.url,
                                               !.result = result,
                                               !.priority = priority,
                                               !.depth = depth,
                                               !.nfilters = Len(filters),
                                               !.consulted = consulted,
                                               !.afterOk = afterOk,
                                               !.repeat = repeat,
                                               !.faulty = fault # "none"]]
                /\ UNCHANGED ucalls
        /\ turnedAway' = IF result \in {"depth", "filtered"}
                         THEN turnedAway \cup {n.url} ELSE turnedAway
        /\ UNCHANGED <<uConfig, filters, urlSet, buckets, urlRecords, uLog, okArgs>>
        /\ OnlyURL

\* saveURL, first command: the context check and SAdd into the dedup set
AddSave(c, fault) ==
    LET item == ucalls[c].item
    IN  /\ ucalls[c].pc = "checked"
        /\ UCanFail(fault)
        /\ uRun' = USpend(uRun, fault)
        /\ IF fault # "none"
           THEN /\ uLast' = [uLast EXCEPT ![c] = Added(c, item.url, fault, TRUE)]
                /\ ucalls' = [ucalls EXCEPT ![c] = IdleCall]
                /\ UNCHANGED urlSet
           ELSE /\ urlSet' = urlSet \cup {item.url}
                /\ ucalls' = [ucalls EXCEPT ![c].pc = "sadded"]
                /\ UNCHANGED uLast
        /\ UNCHANGED <<uConfig, filters, buckets, urlRecords, uLog, okArgs, turnedAway>>
        /\ OnlyURL

\* saveURL, second command: RPush onto the bucket of the item's priority;
\* AddURL returns saveURL's result
AddPush(c, fault) ==
    LET item == ucalls[c].item
        ok == fault = "none"
    IN  /\ ucalls[c].pc = "sadded"
        /\ fault # "canceled"
        /\ UCanFail(fault)
        /\ uRun' = USpend(uRun, fault)
        /\ buckets' = IF ok THEN [buckets EXCEPT ![item.priority] = RPush(@, item.url)]
                      ELSE buckets
        /\ uLog' = IF ok THEN Append(uLog, [op |-> "add", url |-> item.url,
                                            priority |-> item.priority])
                   ELSE uLog
        /\ okArgs' = IF ~ok \/ item.url \in DOMAIN okArgs THEN okArgs
                     ELSE [u \in DOMAIN okArgs \cup {item.url} |->
                             IF u = item.url
                             THEN [depth |-> item.depth, priority |-> item.priority,
                                   filters |-> ucalls[c].nfilters]
                             ELSE okArgs[u]]
        /\ uLast' = [uLast EXCEPT ![c] =
                        Added(c, item.url, IF ok THEN "ok" ELSE fault, ~ok)]
        /\ ucalls' = [ucalls EXCEPT ![c] = IdleCall]
        /\ UNCHANGED <<uConfig, filters, urlSet, urlRecords, turnedAway>>
        /\ OnlyURL

\* the outcome of a GetNextURL call of caller c that ends in state bk of the
\* buckets, having found the priorities of seen empty
Got(c, url, priority, result, seen, faulty, bk) ==
    [NoCall EXCEPT !.op = "get", !.url = url, !.priority = priority,
                   !.result = result, !.seen = seen, !.faulty = faulty,
                   !.quiet = Len(Admissions(uLog)) = ucalls[c].addsAtStart,
                   !.higherEmpty = \A q \in (priority + 1)..uConfig.MaxPriority :
                                       bk[q] = <<>>]

\* GetNextURL is entered: the scan is at its first priority
GetStart(c) ==
    /\ ucalls[c].pc = "idle"
    /\ c \in uRun.callers
    /\ IF ScanOver(ScanStart(uConfig))
       THEN /\ uLast' = [uLast EXCEPT ![c] = Got(c, "", 0, "none", {}, FALSE, buckets)]
            /\ UNCHANGED ucalls
       ELSE /\ ucalls' = [ucalls EXCEPT ![c] =
                            [IdleCall EXCEPT !.pc = "scanning",
                                             !.scan = ScanStart(uConfig),
                                             !.addsAtStart = Len(Admissions(uLog))]]
            /\ UNCHANGED uLast
    /\ UNCHANGED <<uConfig, filters, urlSet, buckets, urlRecords, uRun, uLog, okArgs, turnedAway>>
    /\ OnlyURL

\* GetNextURL, one turn of the loop: getURLByPriority of the priority the scan
\* is at; an item is returned, any error moves on to the next priority, and
\* the loop running out returns "no pending URL"
ScanStep(c, fault) ==
    LET call == ucalls[c]
        r == getURLByPriority(buckets, call.scan, fault)
        seen == IF r.err = "nil" THEN call.seen \cup {call.scan} ELSE call.seen
        faulty == call.faulty \/ fault # "none"
        bk == [buckets EXCEPT ![call.scan] = Tail(@)]
    IN  /\ call.pc = "scanning"
        /\ UCanFail(fault)
        /\ uRun' = USpend(uRun, fault)
        /\ IF r.err = ""
           THEN /\ buckets' = bk
                /\ uLog' = Append(uLog, [op |-> "get", url |-> r.url,
                                         priority |-> call.scan])
                /\ uLast' = [uLast EXCEPT ![c] =
                                [Got(c, r.url, call.scan, "ok", seen, faulty, bk)
                                    EXCEPT !.depth = r.depth]]
                /\ ucalls' = [ucalls EXCEPT ![c] = IdleCall]
           ELSE /\ UNCHANGED <<buckets, uLog>>
                /\ IF ScanOver(ScanNext(call.scan))
                   THEN /\ uLast' = [uLast EXCEPT ![c] =
                                        Got(c, "", 0, "none", seen, faulty, buckets)]
                        /\ ucalls' = [ucalls EXCEPT ![c] = IdleCall]
                   ELSE /\ ucalls' = [ucalls EXCEPT ![c].scan = ScanNext(@),
                                                    ![c].seen = seen,
                                                    ![c].faulty = faulty]
                        /\ UNCHANGED uLast
        /\ UNCHANGED <<uConfig, filters, urlSet, urlRecords, okArgs, turnedAway>>
        /\ OnlyURL

\* URLController.AddFilter
AddFilter(kind) ==
    /\ uRun.filtersLeft > 0
    /\ kind \in uRun.kinds
    /\ uRun' = [uRun EXCEPT !.filtersLeft = @ - 1]
    /\ filters' = Append(filters, kind)
    /\ UNCHANGED <<uConfig, urlSet, buckets, urlRecords, ucalls, uLast, uLog, okArgs, turnedAway>>
    /\ OnlyURL

\* URLController.UpdateStatus: getURLItem reads "<prefix>:url:<url>" (a key
\* that is absent is redis.Nil), then saveURL of the record read
UpdateStatus(c, url, status, fault) ==
    LET found == url \in DOMAIN urlRecords
        result == IF fault # "none" THEN fault
                  ELSE IF ~found THEN "nil"
                  ELSE "ok"
    IN  /\ ucalls[c].pc = "idle"
        /\ c \in uRun.callers
        /\ uRun.statusLeft > 0
        /\ UCanFail(fault)
        /\ uRun' = [USpend(uRun, fault) EXCEPT !.statusLeft = @ - 1]
        /\ urlSet' = IF result = "ok" THEN urlSet \cup {url} ELSE urlSet
        /\ buckets' = IF result = "ok"
                      THEN [buckets EXCEPT ![urlRecords[url].priority] = RPush(@, url)]
                      ELSE buckets
        /\ uLast' = [uLast EXCEPT ![c] =
                        [NoCall EXCEPT !.op = "status", !.url = url,
                                       !.result = result,
                                       !.faulty = fault # "none"]]
        /\ UNCHANGED <<uConfig, filters, urlRecords, ucalls, uLog, okArgs, turnedAway>>
        /\ OnlyURL

NextURL ==
    \/ \E c \in Callers, a \in AddInputs, f \in StoreFaults :
            AddStart(c, a[1], a[2], a[3], f)
    \/ \E c \in Callers, f \in StoreFaults : AddSave(c, f)
    \/ \E c \in Callers, f \in StoreFaults : AddPush(c, f)
    \/ \E c \in Callers : GetStart(c)
    \/ \E c \in Callers, f \in StoreFaults : ScanStep(c, f)
    \/ \E k \in FilterKinds : AddFilter(k)
    \/ \E c \in Callers, u \in URLStrings, f \in StoreFaults :
            UpdateStatus(c, u, "completed", f)

(***************************************************************************)
(* Proxy pool                                                              *)
(*                                                                         *)
(* AddProxy, GetProxy and RemoveProxy hold the pool's lock from their      *)
(* first statement to their return, so each is one step.                   *)
(***************************************************************************)
\* a URL that url.Parse rejects (an invalid percent escape)
BadProxyURL == "http://%zz"

ProxyURLs == {"http://p1", "http://p2", BadProxyURL}

Protocols == {"http", "socks5"}

NoProxyOp == [op |-> "none", url |-> "", err |-> FALSE]

InitProxy ==
    /\ proxies = <<>>
    /\ pLeft = MaxProxyOps
    /\ pLast = NoProxyOp

\* url.Parse returns an error
ParseFails(u) == u = BadProxyURL

\* ProxyPool.AddProxy: a URL that parses is appended, whatever the pool holds
AddProxy(proxyURL, protocol) ==
    /\ pLeft > 0
    /\ pLeft' = pLeft - 1
    /\ proxies' = IF ParseFails(proxyURL) THEN proxies
                  ELSE Append(proxies, [URL |-> proxyURL, Protocol |-> protocol,
                                        Available |-> TRUE])
    /\ pLast' = [op |-> "add", url |-> proxyURL, err |-> ParseFails(proxyURL)]
    /\ OnlyProxy

\* ProxyPool.GetProxy: the first proxy that is available, nil ("") if none
GetProxy ==
    LET avail == SelectSeq(proxies, LAMBDA x : x.Available)
    IN  /\ pLeft > 0
        /\ pLeft' = pLeft - 1
        /\ pLast' = [op |-> "get", url |-> IF avail = <<>> THEN "" ELSE Head(avail).URL,
                     err |-> FALSE]
        /\ UNCHANGED proxies
        /\ OnlyProxy

\* ProxyPool.RemoveProxy, the loop: the slice without the first proxy whose URL
\* matches; the loop returns there
RemoveFirst(list, proxyURL) ==
    LET hits == {i \in 1..Len(list) : list[i].URL = proxyURL}
    IN  IF hits = {} THEN list
        ELSE LET i == CHOOSE h \in hits : \A g \in hits : h <= g
             IN  SubSeq(list, 1, i - 1) \o SubSeq(list, i + 1, Len(list))

\* ProxyPool.RemoveProxy
RemoveProxy(proxyURL) ==
    /\ pLeft > 0
    /\ pLeft' = pLeft - 1
    /\ proxies' = RemoveFirst(proxies, proxyURL)
    /\ pLast' = [op |-> "remove", url |-> proxyURL, err |-> FALSE]
    /\ OnlyProxy

NextProxy ==
    \/ \E u \in ProxyURLs, pr \in Protocols : AddProxy(u, pr)
    \/ GetProxy
    \/ \E u \in ProxyURLs : RemoveProxy(u)

(***************************************************************************)
(* Rate limit controller, lock by lock                                     *)
(*                                                                         *)
(* One origin's limiter with the goroutines that touch it: a caller of     *)
(* Allow that has passed the distributed check, and the adaptive           *)
(* adjustment loop.  Every lock operation and every read or write of a     *)
(* limiter field is a step.                                                *)
(***************************************************************************)
IdleAllow == [pc |-> "idle", rate |-> <<0, 1>>, ok |-> FALSE]

IdleAdjust == [pc |-> "idle", next |-> <<0, 1>>]

InitLocks ==
    /\ mNow = 0
    /\ mLimiter = NewLimiter(<<1, 1>>, 1, 0)
    /\ mStat = [Requests |-> 0, Throttled |-> 0]
    /\ limMu = "free"
    /\ rlcMu = "free"
    /\ mAllow = IdleAllow
    /\ mAdjust = IdleAdjust
    /\ mLeft = [calls |-> MaxLockCalls, adjusts |-> MaxAdjusts]

\* Allow: getLimiter finds the origin's limiter under rlc.mu.RLock, which
\* waits while the adjustment loop holds rlc.mu
GetLimiterStep ==
    /\ mAllow.pc = "idle"
    /\ mLeft.calls > 0
    /\ rlcMu = "free"
    /\ mLeft' = [mLeft EXCEPT !.calls = @ - 1]
    /\ mAllow' = [mAllow EXCEPT !.pc = "got"]
    /\ UNCHANGED <<mNow, mLimiter, mStat, limMu, rlcMu, mAdjust>>
    /\ OnlyLocks

\* Limiter.allow: l.mu.Lock()
LimiterLock ==
    /\ mAllow.pc = "got"
    /\ limMu = "free"
    /\ limMu' = "allow"
    /\ mAllow' = [mAllow EXCEPT !.pc = "locked"]
    /\ UNCHANGED <<mNow, mLimiter, mStat, rlcMu, mAdjust, mLeft>>
    /\ OnlyLocks

\* Limiter.allow: the read of l.rate for the refill
LimiterReadRate ==
    /\ mAllow.pc = "locked"
    /\ mAllow' = [mAllow EXCEPT !.pc = "read", !.rate = mLimiter.rate]
    /\ UNCHANGED <<mNow, mLimiter, mStat, limMu, rlcMu, mAdjust, mLeft>>
    /\ OnlyLocks

\* Limiter.allow: tokens and lastUpdate are written from the rate read
LimiterWriteTokens ==
    LET la == LimiterAllow([mLimiter EXCEPT !.rate = mAllow.rate], mNow)
    IN  /\ mAllow.pc = "read"
        /\ mLimiter' = [mLimiter EXCEPT !.tokens = la.limiter.tokens,
                                        !.lastUpdate = la.limiter.lastUpdate]
        /\ mAllow' = [mAllow EXCEPT !.pc = "written", !.ok = la.ok]
        /\ UNCHANGED <<mNow, mStat, limMu, rlcMu, mAdjust, mLeft>>
        /\ OnlyLocks

\* Limiter.allow returns (the deferred l.mu.Unlock()), and Allow records the
\* outcome under the metrics lock
LimiterUnlock ==
    /\ mAllow.pc = "written"
    /\ limMu' = "free"
    /\ mStat' = IF mAllow.ok THEN [mStat EXCEPT !.Requests = @ + 1]
                ELSE IF mStat.Requests > 0 THEN [mStat EXCEPT !.Throttled = @ + 1]
                ELSE mStat
    /\ mAllow' = IdleAllow
    /\ UNCHANGED <<mNow, mLimiter, rlcMu, mAdjust, mLeft>>
    /\ OnlyLocks

\* startAdaptiveAdjustment, a tick: rlc.mu.Lock()
AdjustLock ==
    /\ mAdjust.pc = "idle"
    /\ mLeft.adjusts > 0
    /\ rlcMu = "free"
    /\ rlcMu' = "adjust"
    /\ mLeft' = [mLeft EXCEPT !.adjusts = @ - 1]
    /\ mAdjust' = [mAdjust EXCEPT !.pc = "locked"]
    /\ UNCHANGED <<mNow, mLimiter, mStat, limMu, mAllow>>
    /\ OnlyLocks

\* startAdaptiveAdjustment, loop body: an origin without a DomainStat, or one
\* between the thresholds, is passed over; else the new rate is computed from
\* limiter.rate
AdjustCompute ==
    /\ mAdjust.pc = "locked"
    /\ mAdjust' = IF mStat.Requests = 0 \/ AdjustDir(mStat, rlConfig) = "keep"
                  THEN [mAdjust EXCEPT !.pc = "written"]
                  ELSE [pc |-> "computed",
                        next |-> AdjustRate(mLimiter.rate, mStat, rlConfig)]
    /\ UNCHANGED <<mNow, mLimiter, mStat, limMu, rlcMu, mAllow, mLeft>>
    /\ OnlyLocks

\* startAdaptiveAdjustment, loop body: the assignment to limiter.rate, made
\* with rlc.mu held and the limiter's own mu not taken
AdjustWriteRate ==
    /\ mAdjust.pc = "computed"
    /\ mLimiter' = [mLimiter EXCEPT !.rate = mAdjust.next]
    /\ mAdjust' = [mAdjust EXCEPT !.pc = "written"]
    /\ UNCHANGED <<mNow, mStat, limMu, rlcMu, mAllow, mLeft>>
    /\ OnlyLocks

\* startAdaptiveAdjustment: rlc.mu.Unlock()
AdjustUnlock ==
    /\ mAdjust.pc = "written"
    /\ rlcMu' = "free"
    /\ mAdjust' = IdleAdjust
    /\ UNCHANGED <<mNow, mLimiter, mStat, limMu, mAllow, mLeft>>
    /\ OnlyLocks

\* time passes
ClockTick ==
    /\ mNow < MaxTime
    /\ mNow' = mNow + 1
    /\ UNCHANGED <<mLimiter, mStat, limMu, rlcMu, mAllow, mAdjust, mLeft>>
    /\ OnlyLocks

NextLocks ==
    \/ GetLimiterStep
    \/ LimiterLock
    \/ LimiterReadRate
    \/ LimiterWriteTokens
    \/ LimiterUnlock
    \/ AdjustLock
    \/ AdjustCompute
    \/ AdjustWriteRate
    \/ AdjustUnlock
    \/ ClockTick

(***************************************************************************)
(* Task manager                                                            *)
(*                                                                         *)
(* StartTask, CancelTask and completeTask hold tasksMux from their first   *)
(* statement to their last, so each is one step.  A started task is an     *)
(* instance: its id, whether its own context was cancelled, and whether    *)
(* its goroutine has finished (the task function returned and completeTask *)
(* ran).  The task map holds, per id, the instance whose cancel function   *)
(* is stored there.                                                        *)
(***************************************************************************)
TaskIds == {"t1", "t2"}

NoTaskOp == [op |-> "none", id |-> "", err |-> FALSE, inst |-> 0]

InitTasks ==
    /\ tmMax = 0
    /\ tmTasks = EmptyMap
    /\ tmActive = 0
    /\ tmInst = <<>>
    /\ tmLeft = MaxTaskOps
    /\ tmLast = NoTaskOp

\* NewTaskManager(maxTasks)
NewTaskManager(maxTasks) ==
    /\ tmMax = 0
    /\ tmMax' = maxTasks
    /\ UNCHANGED <<tmTasks, tmActive, tmInst, tmLeft, tmLast>>
    /\ OnlyTasks

\* the task map with the entry of taskId deleted
removeTask(tasks, taskId) == [t \in DOMAIN tasks \ {taskId} |-> tasks[t]]

\* TaskManager.StartTask: rejected at the limit; else the new context's cancel
\* function is stored under the id (over whatever is stored there), the count
\* goes up and the goroutine starts
StartTask(taskId) ==
    LET full == tmActive >= tmMax
        inst == Len(tmInst) + 1
    IN  /\ tmMax > 0
        /\ tmLeft > 0
        /\ tmLeft' = tmLeft - 1
        /\ IF full
           THEN UNCHANGED <<tmTasks, tmActive, tmInst>>
           ELSE /\ tmTasks' = [t \in DOMAIN tmTasks \cup {taskId} |->
                                 IF t = taskId THEN inst ELSE tmTasks[t]]
                /\ tmActive' = tmActive + 1
                /\ tmInst' = Append(tmInst, [id |-> taskId, cancelled |-> FALSE,
                                             done |-> FALSE])
        /\ tmLast' = [op |-> "start", id |-> taskId, err |-> full,
                      inst |-> IF full THEN 0 ELSE inst]
        /\ UNCHANGED tmMax
        /\ OnlyTasks

\* CancelTask that also gives the task's slot back
CancelTaskFreesSlot(taskId) ==
    LET found == taskId \in DOMAIN tmTasks
    IN  /\ tmMax > 0
        /\ tmLeft > 0
        /\ tmLeft' = tmLeft - 1
        /\ IF found
           THEN /\ tmInst' = [tmInst EXCEPT ![tmTasks[taskId]].cancelled = TRUE]
                /\ tmTasks' = removeTask(tmTasks, taskId)
                /\ tmActive' = tmActive - 1
           ELSE UNCHANGED <<tmTasks, tmInst, tmActive>>
        /\ tmLast' = [op |-> "cancel", id |-> taskId, err |-> ~found,
                      inst |-> IF found THEN tmTasks[taskId] ELSE 0]
        /\ UNCHANGED tmMax
        /\ OnlyTasks

\* TaskManager.CancelTask: the cancel function stored under the id is called and
\* the entry removed; an id without an entry is an error
CancelTask(taskId) ==
    LET found == taskId \in DOMAIN tmTasks
    IN  /\ tmMax > 0
        /\ tmLeft > 0
        /\ tmLeft' = tmLeft - 1
        /\ IF found
           THEN /\ tmInst' = [tmInst EXCEPT ![tmTasks[taskId]].cancelled = TRUE]
                /\ tmTasks' = removeTask(tmTasks, taskId)
           ELSE UNCHANGED <<tmTasks, tmInst>>
        /\ tmLast' = [op |-> "cancel", id |-> taskId, err |-> ~found,
                      inst |-> IF found THEN tmTasks[taskId] ELSE 0]
        /\ UNCHANGED <<tmMax, tmActive>>
        /\ OnlyTasks

\* the goroutine of instance i: the task function returns (cancelled or not)
\* and completeTask deletes the entry of its id and takes the count down
completeTask(i) ==
    /\ i \in 1..Len(tmInst)
    /\ ~tmInst[i].done
    /\ tmInst' = [tmInst EXCEPT ![i].done = TRUE]
    /\ tmTasks' = removeTask(tmTasks, tmInst[i].id)
    /\ tmActive' = tmActive - 1
    /\ tmLast' = [op |-> "complete", id |-> tmInst[i].id, err |-> FALSE, inst |-> i]
    /\ UNCHANGED <<tmMax, tmLeft>>
    /\ OnlyTasks

NextTasks ==
    \/ \E n \in 1..MaxTasks : NewTaskManager(n)
    \/ \E id \in TaskIds : StartTask(id)
    \/ \E id \in TaskIds : CancelTask(id)
    \/ \E i \in 1..MaxTaskOps : completeTask(i)

(***************************************************************************)
(* Rate limit controller, first access to an origin                        *)
(*                                                                         *)
(* Goroutines calling Allow for one origin that has no limiter yet, at one *)
(* instant (no refill) and with the distributed check passing.  getLimiter *)
(* is two critical sections: the lookup under rlc.mu.RLock, and, when the  *)
(* lookup missed, the double-checked insert under rlc.mu.Lock.  A limiter  *)
(* is an instance; the map and the goroutines refer to instances.  Each    *)
(* goroutine keeps the answer of its last call.                            *)
(***************************************************************************)
Goroutines == 1..3

IdleGet == [pc |-> "idle", ref |-> 0, last |-> "none"]

InitGet ==
    /\ gMap = 0
    /\ gMu = 0
    /\ gInst = <<>>
    /\ gCall = [g \in Goroutines |-> IdleGet]
    /\ gAdmitted = 0
    /\ gLeft = MaxBurst + 1

\* getLimiter: RLock, limiter, exists := rlc.limiters[domain], RUnlock
GetLimiterLookup(g) ==
    /\ gCall[g].pc = "idle"
    /\ gMu = 0
    /\ gLeft > 0
    /\ gLeft' = gLeft - 1
    /\ gCall' = [gCall EXCEPT ![g] = IF gMap # 0
                                     THEN [@ EXCEPT !.pc = "have", !.ref = gMap]
                                     ELSE [@ EXCEPT !.pc = "missing"]]
    /\ UNCHANGED <<gMap, gMu, gInst, gAdmitted>>
    /\ OnlyGet

\* getLimiter, the lookup missed: rlc.mu.Lock()
GetLimiterLock(g) ==
    /\ gCall[g].pc = "missing"
    /\ gMu = 0
    /\ gMu' = g
    /\ gCall' = [gCall EXCEPT ![g].pc = "locked"]
    /\ UNCHANGED <<gMap, gInst, gAdmitted, gLeft>>
    /\ OnlyGet

\* getLimiter that inserts a new limiter without the second lookup
GetLimiterInsertUnchecked(g) ==
    /\ gCall[g].pc = "locked"
    /\ gMu = g
    /\ gMu' = 0
    /\ gInst' = Append(gInst, NewLimiter(rlConfig.DefaultRate, rlConfig.DefaultBurst, 0))
    /\ gMap' = Len(gInst) + 1
    /\ gCall' = [gCall EXCEPT ![g] = [@ EXCEPT !.pc = "have", !.ref = Len(gInst) + 1]]
    /\ UNCHANGED <<gAdmitted, gLeft>>
    /\ OnlyGet

\* getLimiter under the write lock: the second lookup, the insert of a new
\* limiter only if the origin still has none, rlc.mu.Unlock()
GetLimiterInsert(g) ==
    /\ gCall[g].pc = "locked"
    /\ gMu = g
    /\ gMu' = 0
    /\ IF gMap # 0
       THEN /\ gCall' = [gCall EXCEPT ![g] = [@ EXCEPT !.pc = "have", !.ref = gMap]]
            /\ UNCHANGED <<gInst, gMap>>
       ELSE /\ gInst' = Append(gInst, NewLimiter(rlConfig.DefaultRate,
                                                 rlConfig.DefaultBurst, 0))
            /\ gMap' = Len(gInst) + 1
            /\ gCall' = [gCall EXCEPT ![g] = [@ EXCEPT !.pc = "have",
                                                        !.ref = Len(gInst) + 1]]
    /\ UNCHANGED <<gAdmitted, gLeft>>
    /\ OnlyGet

\* Allow: limiter.allow() on the limiter getLimiter returned, under its mu
AllowOnLimiter(g) ==
    LET la == LimiterAllow(gInst[gCall[g].ref], 0)
    IN  /\ gCall[g].pc = "have"
        /\ gInst' = [gInst EXCEPT ![gCall[g].ref] = la.limiter]
        /\ gAdmitted' = IF la.ok THEN gAdmitted + 1 ELSE gAdmitted
        /\ gCall' = [gCall EXCEPT ![g] = [pc |-> "idle", ref |-> 0,
                                          last |-> IF la.ok THEN "ok" ELSE "throttled"]]
        /\ UNCHANGED <<gMap, gMu, gLeft>>
        /\ OnlyGet

NextGet ==
    \/ \E g \in Goroutines : GetLimiterLookup(g)
    \/ \E g \in Goroutines : GetLimiterLock(g)
    \/ \E g \in Goroutines : GetLimiterInsert(g)
    \/ \E g \in Goroutines : AllowOnLimiter(g)

(***************************************************************************)
(* Properties of the rate limit controller                                 *)
(***************************************************************************)
\* passes of the distributed check inside the window of length WindowSize
\* that ends now
PassesInWindow(d) == Len(Recent(passes[d], now, rlConfig))

\* C3: for one origin and any window of length windowSize, the requests that
\* pass the distributed sliding-window check never exceed windowLimit, also for
\* several calls within one clock second (no store command failing).
C3_SlidingWindowBound ==
    rlBudget.faults = 0 =>
        \A d \in Domains : PassesInWindow(d) <= rlConfig.WindowLimit

\* C4: 0 <= tokens <= burst for every limiter, after any sequence of Allow
\* calls, SetRate calls and adjustment ticks.
C4_TokenBucketInvariant ==
    \A d \in DOMAIN limiters :
        /\ RLe(Rat(0), limiters[d].tokens)
        /\ RLe(limiters[d].tokens, Rat(limiters[d].burst))

\* a limiter that refilled a fraction of a token and then admitted a call
C4_Witness ==
    \E d \in DOMAIN limiters :
        /\ lastAllow = [domain |-> d, outcome |-> "ok"]
        /\ limiters[d].tokens[2] # 1
        /\ limiters[d].lastUpdate > 0

\* the first n decisions of the log were made at the instant the limiter was made
AtOnce(log, n) == \A j \in 1..n : log[j].dt = 0

\* C5: a fresh limiter with rate r and burst B admits exactly the first B calls
\* made at the instant it was created and throttles the (B+1)-th; the next call
\* is admitted once 1/r seconds have passed (tokens = 1 admits), and not before.
C5_BurstThenRate ==
    \A d \in DOMAIN limiters :
        LET log == epoch[d].log
            B == limiters[d].burst
            r == limiters[d].rate
        IN  epoch[d].clean =>
              /\ \A i \in 1..Len(log) : AtOnce(log, i) => (log[i].ok <=> i <= B)
              /\ (Len(log) >= B + 2 /\ AtOnce(log, B + 1)) =>
                    (log[B + 2].ok <=> RLe(Rat(1), RMul(Seconds(log[B + 2].dt), r)))

\* rate = 1, burst = 3: calls 1-3 admitted, call 4 throttled, call 5 admitted 1 s later
C5_Witness ==
    \E d \in DOMAIN limiters :
        /\ epoch[d].clean
        /\ limiters[d].rate = <<1, 1>> /\ limiters[d].burst = 3
        /\ Len(epoch[d].log) = 5
        /\ AtOnce(epoch[d].log, 4)
        /\ epoch[d].log[5] = [dt |-> TicksPerSec, ok |-> TRUE]

AllowStep == lastOp'.op = "allow" /\ rlBudget'.calls < rlBudget.calls

SetRateStep == lastOp'.op = "set" /\ rlBudget'.side < rlBudget.side

\* the per-origin counters, zero while the origin has no DomainStat
RequestsOf(stats, d) == IF d \in DOMAIN stats THEN stats[d].Requests ELSE 0

ThrottledOf(stats, d) == IF d \in DOMAIN stats THEN stats[d].Throttled ELSE 0

\* C11: every Allow(origin) call increments exactly one of the origin's
\* counters by one, requests when admitted and throttled when rejected, also
\* when the rejected call is the first call made for the origin.
C11_OutcomeRecorded ==
    [][AllowStep =>
         LET d == lastOp'.domain
         IN  IF lastAllow'.outcome = "ok"
             THEN /\ RequestsOf(domainStats', d) = RequestsOf(domainStats, d) + 1
                  /\ ThrottledOf(domainStats', d) = ThrottledOf(domainStats, d)
             ELSE /\ ThrottledOf(domainStats', d) = ThrottledOf(domainStats, d) + 1
                  /\ RequestsOf(domainStats', d) = RequestsOf(domainStats, d)]_vars

\* C14: when one of the three store commands of the sliding-window check fails
\* (remove expired, add current, count), Allow returns that error and the
\* request is not admitted.
C14_StoreErrorSurfaced ==
    (lastOp.op = "allow" /\ lastOp.fault # "none") => lastAllow.outcome = "store"

\* C15: Allow with a cancelled context returns the context's error, leaves the
\* origin's sliding-window set as it was and takes no token: the limiter keeps
\* its tokens, and one created by this call still holds its full burst.
C15_CanceledShortCircuits ==
    [][(AllowStep /\ lastOp'.ctxDone) =>
         LET d == lastOp'.domain
         IN  /\ lastAllow'.outcome = "canceled"
             /\ zset' = zset
             /\ limiters'[d].tokens = IF d \in DOMAIN limiters
                                      THEN limiters[d].tokens
                                      ELSE Rat(rlConfig.DefaultBurst)
             /\ d \in DOMAIN limiters => limiters'[d] = limiters[d]]_vars

\* a cancelled call for an origin whose window set holds an entry and whose
\* bucket has given out a token
C15_Witness ==
    \E d \in DOMAIN limiters :
        /\ lastOp.op = "allow" /\ lastOp.domain = d /\ lastOp.ctxDone
        /\ lastAllow.outcome = "canceled"
        /\ zset[d] # EmptyMap
        /\ RLt(limiters[d].tokens, Rat(limiters[d].burst))

\* after a limiter was made, the calls that reach it at that same instant pass
\* while they are no more than its burst
BurstAfterReset ==
    \A d \in DOMAIN limiters :
        \A i \in 1..Len(epoch[d].log) :
            (i <= limiters[d].burst /\ AtOnce(epoch[d].log, i)) => epoch[d].log[i].ok

\* C19: after SetRate(origin, rate, burst) the origin's limiter has exactly that
\* rate and burst and tokens = burst, whatever it was before, and the limiters
\* of the other origins are unchanged; the next burst Allow calls made at once
\* pass the local bucket.
C19_SetRateReplaces ==
    /\ [][SetRateStep =>
            LET d == lastOp'.domain
            IN  /\ limiters'[d] = [rate |-> lastOp'.rate, burst |-> lastOp'.burst,
                                   tokens |-> Rat(lastOp'.burst), lastUpdate |-> now]
                /\ DOMAIN limiters' = DOMAIN limiters \cup {d}
                /\ \A e \in DOMAIN limiters \ {d} : limiters'[e] = limiters[e]]_vars
    /\ []BurstAfterReset

\* SetRate replaced a limiter that had just given out a token, and the calls
\* made at once after it passed up to the new burst
C19_Witness ==
    \E d \in DOMAIN limiters :
        /\ lastOp.op = "allow" /\ lastOp.domain = d
        /\ RequestsOf(domainStats, d) > limiters[d].burst
        /\ limiters[d].burst = 2 /\ limiters[d].rate = <<1, 2>>
        /\ Len(epoch[d].log) = 3 /\ AtOnce(epoch[d].log, 3)
        /\ epoch[d].log[2].ok /\ ~epoch[d].log[3].ok

\* the seconds of [sec - WindowSize, sec] at which origin d was asked for
AskedInWindow(as, d, sec) ==
    {x \in as[d] : sec - rlConfig.WindowSize <= x /\ x <= sec}

\* the step is an Allow call with a live context and no store failure
CleanAllowStep == AllowStep /\ ~lastOp'.ctxDone /\ lastOp'.fault = "none"

\* C23: the current request's entry is added before counting: with window limit
\* L, a request passes the distributed check while the distinct timestamps
\* asked at inside the window [now - windowSize, now], its own included, are at
\* most L, and the next is rejected; the entry of a rejected request stays
\* recorded.
C23_SelfInclusiveLimit ==
    [][CleanAllowStep =>
         LET d == lastOp'.domain
             sec == Unix(now)
         IN  /\ lastAllow'.outcome = "window"
                   <=> Cardinality(AskedInWindow(asked', d, sec)) > rlConfig.WindowLimit
             /\ MemberOf(sec) \in DOMAIN zset'[d]]_vars

\* C24: the expiry step removes only entries scored strictly below
\* now - windowSize: an entry scored exactly now - windowSize is kept.
C24_BoundaryEntryKept ==
    [][CleanAllowStep =>
         LET d == lastOp'.domain
             sec == Unix(now)
         IN  \A m \in DOMAIN zset[d] :
                 zset[d][m] >= sec - rlConfig.WindowSize => m \in DOMAIN zset'[d]]_vars

\* the step is an Allow call that the distributed check rejected
WindowRejectStep == AllowStep /\ lastAllow'.outcome \in {"window", "store", "canceled"}

\* C29: a request rejected by the distributed check takes no token: tokens and
\* lastUpdate of the origin's limiter are unchanged (a limiter made by the call
\* is untouched since its creation); only a request that passed the distributed
\* check changes the bucket.
C29_DistributedCheckFirst ==
    [][WindowRejectStep =>
         LET d == lastOp'.domain
         IN  limiters'[d] = IF d \in DOMAIN limiters THEN limiters[d]
                            ELSE NewLimiter(rlConfig.DefaultRate,
                                            rlConfig.DefaultBurst, now)]_vars

\* the window limit rejected a request whose bucket held a refillable deficit
C29_Witness ==
    \E d \in DOMAIN limiters :
        /\ lastOp.op = "allow" /\ lastOp.domain = d /\ lastOp.fault = "none"
        /\ lastAllow.outcome = "window"
        /\ limiters[d].lastUpdate < now
        /\ RLt(limiters[d].tokens, Rat(limiters[d].burst))

(***************************************************************************)
(* Properties of the work queue controller                                 *)
(***************************************************************************)
InPending(k) == Cardinality({i \in 1..Len(pending) : pending[i].data.key = k})

InFlight(k) ==
    Cardinality({w \in Workers : /\ workers[w].pc \in {"popped", "running", "failing"}
                                 /\ workers[w].item.data.key = k})

InCompleted(k) == Cardinality({i \in completedArch : i.data.key = k})

InFailed(k) == Cardinality({i \in failedArch : i.data.key = k})

\* every attempt made for payload k so far invoked a handler, and every handler
\* invocation that has returned failed
AlwaysFails(k) ==
    /\ hist[k].failures = hist[k].attempts - InFlight(k)
    /\ \A w \in Workers :
          (workers[w].item.data.key = k /\ workers[w].pc # "idle") =>
              (workers[w].pc = "popped" \/ (workers[w].pc = "running" /\ workers[w].err = "fail"))

\* C1: an item pushed once whose handler fails on every invocation is handed
\* to the handler exactly MaxRetries + 1 times, then appears in the failed
\* archive exactly once and never in the completed archive; no invocation
\* follows (no store command failing).
C1_RetryCeiling ==
    \A k \in accepted :
        (qBudget.faults = 0 /\ AlwaysFails(k)) =>
            /\ hist[k].invocations <= qConfig.MaxRetries + 1
            /\ InCompleted(k) = 0
            /\ InFailed(k) <= 1
            /\ InFailed(k) = 1 => hist[k].invocations = qConfig.MaxRetries + 1
            /\ (hist[k].failures = qConfig.MaxRetries + 1) => InFailed(k) = 1

\* C2: before Close, every item Push accepted is in the pending list, in
\* flight at exactly one worker, or in the completed or failed archive, also
\* when a store command issued while handling a failure returns an error.
C2_NoSilentDrop ==
    closing = "open" =>
        \A k \in accepted :
            /\ InPending(k) + InFlight(k) + InCompleted(k) + InFailed(k) >= 1
            /\ InFlight(k) <= 1

\* every copy of a work item the controller holds: pending, at a worker, archived
AllItems ==
    {pending[i] : i \in 1..Len(pending)}
        \cup {workers[w].item : w \in {v \in Workers : workers[v].pc \notin {"idle", "polling"}}}
        \cup completedArch \cup failedArch

\* payload k carries no discriminant, so no handler can ever be found for it
BadItem(k) == \E it \in AllItems : it.data.key = k /\ it.data.type = ""

\* C16: an item without a discriminant is never passed to a handler and ends
\* in the failed archive after finitely many attempts, at most the MaxRetries + 1
\* of the retry ceiling (no store command failing).
C16_BadItemFailsCleanly ==
    qBudget.faults = 0 =>
        \A k \in accepted :
            BadItem(k) =>
                /\ hist[k].invocations = 0
                /\ hist[k].attempts <= qConfig.MaxRetries + 1
                /\ (hist[k].attempts = qConfig.MaxRetries + 1 /\ InFlight(k) = 0)
                      => InFailed(k) = 1

\* the status of payload k: the status field of the copy the controller holds
StatusOfKey(k) ==
    LET c == {it \in AllItems : it.data.key = k}
    IN  IF c = {} THEN "none" ELSE (CHOOSE it \in c : TRUE).status

StatusMoves ==
    { <<"none", "pending">>, <<"pending", "processing">>,
      <<"processing", "completed">>, <<"processing", "pending">>,
      <<"processing", "failed">> }

\* what holds of the statuses in every state
StatusesConsistent ==
    /\ \A w \in Workers :
          workers[w].pc = "running" => workers[w].item.status = "processing"
    /\ \A it \in completedArch : it.status = "completed"
    /\ \A it \in failedArch : it.status = "failed"
    /\ \A k \in 1..MaxPush :
          InCompleted(k) + InFailed(k) >= 1 => InPending(k) + InFlight(k) = 0

\* C17: an item's status only moves pending -> processing -> completed, pending
\* (retry) or failed; a handler runs only on an item whose status is
\* processing; an item that reached completed or failed is never processed or
\* enqueued again (steps in which no store command fails).
C17_StatusMachine ==
    /\ []StatusesConsistent
    /\ [][qBudget'.faults = 0 =>
            \A k \in 1..MaxPush :
                \/ StatusOfKey(k)' = StatusOfKey(k)
                \/ <<StatusOfKey(k), StatusOfKey(k)'>> \in StatusMoves]_vars

\* an item that failed for want of a handler, was retried and then completed
C17_Witness ==
    \E k \in accepted :
        /\ hist[k].attempts = 2 /\ hist[k].invocations = 1
        /\ InCompleted(k) = 1 /\ StatusOfKey(k) = "completed"

\* C18: the retries value a work item carries never decreases over the attempts
\* one Push causes: the entry enqueued again after the k-th failed attempt
\* carries retries = k.  An entry is pending only when every attempt made for
\* its payload so far has failed.
C18_RetriesCarried ==
    \A i \in 1..Len(pending) :
        pending[i].retries = hist[pending[i].data.key].attempts

\* worker w routes a failure into a retry / pops the next item
RetryStep(w) ==
    /\ workers[w].pc \in {"running", "failing"} /\ workers'[w].pc = "idle"
    /\ nextId' = nextId + 1
    /\ qBudget'.faults = qBudget.faults

PopStep(w) == workers[w].pc = "polling" /\ workers'[w].pc = "popped"

\* ids are handed out in the order of the pushes, and the list keeps that order
PendingInPushOrder ==
    \A i, j \in 1..Len(pending) : i < j => pending[i].id < pending[j].id

\* C20: when an attempt fails and the item is retried, its new entry goes to
\* the tail of the pending list, and workers take the head, so every item
\* pending at that moment is dequeued before the retried copy.
C20_RetryAtTail ==
    /\ []PendingInPushOrder
    /\ [][\A w \in Workers :
            /\ RetryStep(w) =>
                  /\ Len(pending') = Len(pending) + 1
                  /\ SubSeq(pending', 1, Len(pending)) = pending
                  /\ pending'[Len(pending')].data = workers[w].item.data
            /\ PopStep(w) =>
                  /\ workers'[w].item = Head(pending)
                  /\ pending' = Tail(pending)]_vars

\* a retried copy waits behind an item that was pending when it was retried
C20_Witness ==
    \E i, j \in 1..Len(pending) :
        /\ i < j
        /\ hist[pending[i].data.key].attempts = 0
        /\ hist[pending[j].data.key].attempts >= 1

\* C21: Close never joins the workers: once called it completes (cancel,
\* grace wait, final metrics) also when a handler never returns.
C21_CloseCompletes == (closing = "cancelled") ~> (closing = "closed")

\* Close has returned with the final metrics written while a worker is still
\* inside a handler
C21_Witness ==
    /\ closing = "closed"
    /\ metricsDocs # <<>>
    /\ \E w \in Workers : workers[w].pc = "running"

\* worker w gives up an item whose processing transition could not be stored
StoreErrorRouted(w) ==
    /\ workers[w].pc = "failing" /\ workers[w].err = "store"
    /\ workers'[w].pc = "idle"

\* C25: only handler failures consume the retry budget: an error of the store
\* call that persists the processing transition never puts the item, with its
\* retries incremented, into the failed archive, and the handler is not invoked
\* for it.
C25_StoreErrorsFree ==
    [][\A w \in Workers :
          /\ StoreErrorRouted(w) => failedArch' = failedArch
          /\ (workers[w].pc = "popped" /\ workers'[w].err = "store") =>
                hist'[workers[w].item.data.key].invocations
                    = hist[workers[w].item.data.key].invocations]_vars

\* C27 as stated: once the context is cancelled no worker starts a dequeue.
C27_NoDequeueAfterCancel ==
    [][closing # "open" => \A w \in Workers : ~PopStep(w)]_vars

\* C27: after cancellation a worker at the top of its loop only exits; a worker
\* past the check finishes that one dequeue, and a worker with an item runs the
\* handler and the outcome handling to the end before it is back at the top of
\* the loop; with handlers that return, every worker eventually exits.
C27_CooperativeCancel ==
    /\ [][closing # "open" =>
            \A w \in Workers :
               /\ workers[w].pc = "idle" => workers'[w].pc \in {"idle", "exited"}
               /\ workers[w].pc = "exited" => workers'[w].pc = "exited"
               /\ workers[w].pc = "polling" => workers'[w].pc \in {"polling", "popped", "idle"}
               /\ workers[w].pc = "popped" =>
                      /\ workers'[w].pc \in {"popped", "running", "failing"}
                      /\ workers'[w].item.id = workers[w].item.id
               /\ workers[w].pc \in {"running", "failing"} =>
                      \/ workers'[w] = workers[w]
                      \/ /\ workers'[w].pc = "idle"
                         /\ qMetrics'.TotalItems = qMetrics.TotalItems + 1]_vars
    /\ (closing # "open") ~> (\A w \in Workers : workers[w].pc = "exited")

\* after cancellation one worker has exited while the other, which had popped
\* an item, is inside its handler
C27_Witness ==
    /\ closing # "open"
    /\ \E w, v \in Workers :
          /\ workers[w].pc = "exited"
          /\ workers[v].pc = "running"

\* worker w's handler returns and the outcome is routed, no store command failing
AttemptEnds(w) ==
    /\ workers[w].pc = "running" /\ workers'[w].pc = "idle"
    /\ qBudget'.faults = qBudget.faults

PendingIds == {pending[i].id : i \in 1..Len(pending)}

HeldBy(w) ==
    IF workers[w].pc \in {"popped", "running", "failing"} THEN {workers[w].item.id} ELSE {}

\* handler invocations and pops made so far, over all payloads
RECURSIVE TotalInvocations(_)
TotalInvocations(k) == IF k = 0 THEN 0 ELSE hist[k].invocations + TotalInvocations(k - 1)

RECURSIVE TotalPops(_)
TotalPops(k) == IF k = 0 THEN 0 ELSE hist[k].attempts + TotalPops(k - 1)

\* C35: with the workers popping the same pending list concurrently, no entry
\* is handed to two handler invocations: an entry is at one place only (in the
\* list once, or with one worker), a pop takes exactly the head out of the
\* list, and the handler invocations never exceed the pops, nor these the
\* entries ever given an id.
C35_DeliveredOnce ==
    /\ [](/\ \A w, v \in Workers : w # v => HeldBy(w) \cap HeldBy(v) = {}
          /\ \A w \in Workers : HeldBy(w) \cap PendingIds = {}
          /\ Cardinality(PendingIds) = Len(pending)
          /\ TotalInvocations(MaxPush) <= TotalPops(MaxPush)
          /\ TotalPops(MaxPush) + Len(pending) <= nextId)
    /\ [][\A w \in Workers :
            (workers[w].pc = "popped" /\ workers'[w].pc = "running") =>
                /\ TotalInvocations(MaxPush)' = TotalInvocations(MaxPush) + 1
                /\ workers'[w].item.id = workers[w].item.id]_vars

\* the two workers are inside handlers at the same time, each with its own entry
C35_Witness ==
    /\ \A w \in Workers : workers[w].pc = "running"
    /\ TotalInvocations(MaxPush) >= 2

(***************************************************************************)
(* Properties of the URL frontier                                          *)
(***************************************************************************)
AtPriority(log, p) == SelectSeq(log, LAMBDA e : e.priority = p)

URLsOf(log) == [i \in DOMAIN log |-> log[i].url]

PrioritiesOf(log) == [i \in DOMAIN log |-> log[i].priority]

\* C6: among AddURL calls whose URLs normalize to the same string, at most one
\* succeeds, and the URL is appended to the priority buckets at most once.
\* Every entry of the admission log is one successful call and one RPush.
C6_AtMostOnceAdmission ==
    \A i, j \in DOMAIN Admissions(uLog) :
        i # j => Admissions(uLog)[i].url # Admissions(uLog)[j].url

\* C7: an AddURL call made after a successful AddURL of the same URL, with the
\* same depth and priority, is rejected as a duplicate whatever GetNextURL has
\* handed out in between, and a call made after the success never reaches the
\* commands that write the dedup set or a bucket.
C7_DuplicateRejected ==
    \A c \in Callers :
        /\ (uLast[c].op = "add" /\ uLast[c].repeat /\ ~uLast[c].faulty)
              => uLast[c].result = "duplicate"
        /\ ucalls[c].pc \in {"checked", "sadded"} => ~ucalls[c].afterOk

\* the repeated call is rejected after its URL was already handed out
C7_Witness ==
    \E c \in Callers :
        /\ uLast[c].op = "add" /\ uLast[c].repeat /\ uLast[c].result = "duplicate"
        /\ \E i \in DOMAIN HandOuts(uLog) : HandOuts(uLog)[i].url = uLast[c].url
        /\ \A p \in Priorities : buckets[p] = <<>>

\* C8 as stated: when no store call of it fails, GetNextURL returns a URL of
\* priority p only if every bucket of priority p+1..MaxPriority is empty at the
\* moment it returns.
C8_HigherEmptyAtReturn ==
    \A c \in Callers :
        (uLast[c].op = "get" /\ uLast[c].result = "ok" /\ ~uLast[c].faulty)
            => uLast[c].higherEmpty

\* the admissions at priorities 5, 1, 5, 3 and then four hand-outs
FiveOneFiveThree ==
    /\ Len(Admissions(uLog)) = 4 /\ Len(HandOuts(uLog)) = 4
    /\ uLog = Admissions(uLog) \o HandOuts(uLog)
    /\ PrioritiesOf(Admissions(uLog)) = <<5, 1, 5, 3>>

\* C8 amended: when no store call of it fails, GetNextURL returns a URL of
\* priority p only if its scan found every bucket of priority p+1..MaxPriority
\* empty, and these buckets are all empty when it returns if no AddURL
\* succeeded during the call; URLs admitted at priorities 5, 1, 5, 3 are handed
\* out as first 5, second 5, the 3, the 1.
C8_PriorityOrder ==
    /\ \A c \in Callers :
          (uLast[c].op = "get" /\ uLast[c].result = "ok" /\ ~uLast[c].faulty)
              => /\ uLast[c].seen = (uLast[c].priority + 1)..uConfig.MaxPriority
                 /\ uLast[c].quiet => uLast[c].higherEmpty
    /\ FiveOneFiveThree =>
          LET a == URLsOf(Admissions(uLog))
          IN  URLsOf(HandOuts(uLog)) = <<a[1], a[3], a[4], a[2]>>

C8_Witness ==
    /\ FiveOneFiveThree
    /\ uLast[1].op = "get" /\ uLast[1].result = "ok" /\ uLast[1].priority = 1
    /\ uLast[1].seen = 2..5

\* C9: of two URLs admitted at the same priority, the one whose AddURL
\* completed first is handed out first: at every priority the URLs handed out
\* so far are the first of the URLs admitted, in the order of admission.
C9_FifoWithinPriority ==
    \A p \in Priorities :
        LET a == AtPriority(Admissions(uLog), p)
            g == AtPriority(HandOuts(uLog), p)
        IN  /\ Len(g) <= Len(a)
            /\ \A i \in 1..Len(g) : g[i].url = a[i].url

\* two different URLs of one priority were handed out, with an admission at
\* another priority between their admissions
C9_Witness ==
    \E p \in Priorities :
        LET g == AtPriority(HandOuts(uLog), p)
        IN  /\ Len(g) >= 2 /\ g[1].url # g[2].url
            /\ \E i, j, k \in DOMAIN uLog :
                  /\ i < j /\ j < k
                  /\ uLog[i] = [op |-> "add", url |-> g[1].url, priority |-> p]
                  /\ uLog[j].op = "add" /\ uLog[j].priority # p
                  /\ uLog[k] = [op |-> "add", url |-> g[2].url, priority |-> p]

\* C12: after AddURL(url) has succeeded, UpdateStatus(url, s) returns no error
\* and the URL's stored status record then holds status s (no store command
\* failing, context not cancelled).
C12_StatusUpdated ==
    \A c \in Callers :
        (uLast[c].op = "status" /\ ~uLast[c].faulty /\ uLast[c].url \in DOMAIN okArgs)
            => /\ uLast[c].result = "ok"
               /\ uLast[c].url \in DOMAIN urlRecords
               /\ urlRecords[uLast[c].url].status = "completed"

\* C13: every URL held in the dedup set or a priority bucket was admitted with
\* depth <= MaxDepth and priority <= MaxPriority; a call with depth or priority
\* above the maximum admits nothing.
C13_BoundsRespected ==
    /\ \A u \in DOMAIN okArgs :
          /\ okArgs[u].depth <= uConfig.MaxDepth
          /\ okArgs[u].priority <= uConfig.MaxPriority
    /\ \A i \in DOMAIN uLog : uLog[i].priority <= uConfig.MaxPriority
    /\ \A p \in Priorities : p > uConfig.MaxPriority => buckets[p] = <<>>

\* an AddURL call returned an error before any store command changed anything
RejectedAdd == uRun'.adds < uRun.adds /\ ucalls' = ucalls

\* the first filter of fs that vetoes the item, if any
FirstVeto(fs, item) ==
    IF \E i \in 1..Len(fs) : ~FilterAllows(fs[i], item)
    THEN CHOOSE i \in 1..Len(fs) :
            /\ ~FilterAllows(fs[i], item)
            /\ \A j \in 1..(i - 1) : FilterAllows(fs[j], item)
    ELSE 0

\* C30: AddURL evaluates normalization, then the depth limit, then the filters
\* in registration order (the first veto rejects, later filters are not
\* consulted), then the dedup membership test; a call rejected by one of them
\* leaves the dedup set and the buckets as they were.
C30_CheckOrder ==
    /\ [](\A c \in Callers :
            (uLast[c].op = "add" /\ uLast[c].result # "malformed") =>
               LET r == uLast[c]
                   item == [url |-> r.url, depth |-> r.depth, priority |-> r.priority,
                            status |-> "pending"]
                   fs == SubSeq(filters, 1, r.nfilters)
                   veto == FirstVeto(fs, item)
               IN  /\ r.result = "depth" <=> r.depth > uConfig.MaxDepth
                   /\ r.result = "depth" => r.consulted = 0
                   /\ r.result # "depth" =>
                         /\ r.result = "filtered" <=> veto # 0
                         /\ r.consulted = IF veto # 0 THEN veto ELSE r.nfilters)
    /\ [][RejectedAdd => urlSet' = urlSet /\ buckets' = buckets]_vars

\* a URL that a filter turned away at one depth was admitted later at another,
\* after both registered filters had been consulted
C30_Witness ==
    \E c \in Callers :
        /\ uLast[c].op = "add" /\ uLast[c].result = "ok"
        /\ uLast[c].url \in turnedAway
        /\ uLast[c].consulted = 2

\* C33: whenever AddURL returns an error the dedup set and the buckets are as
\* before, so the dedup set never holds a URL that was not also appended to a
\* bucket (a call between its two store commands aside).
C33_AddAllOrNothing ==
    \A u \in urlSet :
        \/ \E i \in DOMAIN Admissions(uLog) : Admissions(uLog)[i].url = u
        \/ \E c \in Callers : ucalls[c].pc = "sadded" /\ ucalls[c].item.url = u

\* caller c's GetNextURL returns "no pending URL", no store command of the call
\* having failed and no AddURL having succeeded while it scanned
ReportsNonePending(c) ==
    /\ ucalls[c].pc = "scanning" /\ ucalls'[c].pc = "idle"
    /\ uLast'[c].op = "get" /\ uLast'[c].result = "none"
    /\ ~uLast'[c].faulty /\ uLast'[c].quiet

\* the hand-outs of URL u so far
HandOutsOf(log, u) == {j \in DOMAIN HandOuts(log) : HandOuts(log)[j].url = u}

\* C34: when GetNextURL, called repeatedly, reports that no URL is pending,
\* every URL for which AddURL returned success has been returned by exactly one
\* GetNextURL call.
C34_NoStrandedURL ==
    [][\A c \in Callers :
          ReportsNonePending(c) =>
              \A i \in DOMAIN Admissions(uLog') :
                  Cardinality(HandOutsOf(uLog', Admissions(uLog')[i].url)) = 1]_vars

\* C36: the item GetNextURL returns for a URL carries the URL, depth and
\* priority with which AddURL admitted that URL.
C36_MetadataRoundTrip ==
    \A c \in Callers :
        (uLast[c].op = "get" /\ uLast[c].result = "ok") =>
            /\ \E i \in DOMAIN Admissions(uLog) :
                  /\ Admissions(uLog)[i].url = uLast[c].url
                  /\ Admissions(uLog)[i].priority = uLast[c].priority
            /\ uLast[c].url \in DOMAIN okArgs
            /\ okArgs[uLast[c].url].depth = uLast[c].depth

\* C37: a GetNextURL call in which popping a bucket failed with a store error
\* or a cancelled context reports that failure; it returns no URL of a lower
\* bucket while a higher bucket is non-empty and does not report "no pending
\* URL" instead.
C37_GetReportsFailure ==
    \A c \in Callers :
        (uLast[c].op = "get" /\ uLast[c].faulty) =>
            /\ uLast[c].result \in {"store", "canceled"}
            /\ (uLast[c].result = "ok" /\ uLast[c].quiet) => uLast[c].higherEmpty

(***************************************************************************)
(* Properties of the proxy pool                                            *)
(***************************************************************************)
RemoveStep == pLast'.op = "remove" /\ pLeft' < pLeft

\* the proxies of a list whose URL is not the one given, in their order
RemoveAll(list, proxyURL) == SelectSeq(list, LAMBDA x : x.URL # proxyURL)

\* C22: after RemoveProxy(u) the pool holds no proxy whose URL is u, whatever
\* AddProxy and RemoveProxy calls came before (u added more than once
\* included); the proxies with other URLs are unchanged and keep their order.
C22_RemoveProxyRemoves ==
    [][RemoveStep =>
          /\ \A i \in 1..Len(proxies') : proxies'[i].URL # pLast'.url
          /\ RemoveAll(proxies', pLast'.url) = RemoveAll(proxies, pLast'.url)]_vars

(***************************************************************************)
(* Properties of the limiter's locks                                       *)
(***************************************************************************)
\* C26: every write to a limiter's fields is made holding the limiter's own
\* lock, so the adjustment loop is never about to write rate while an Allow on
\* the origin is inside the token-bucket check about to read it.
C26_LimiterLockDiscipline ==
    /\ mAllow.pc = "read" => limMu = "allow"
    /\ mAdjust.pc = "computed" => limMu = "adjust"
    /\ ~(mAdjust.pc = "computed" /\ mAllow.pc = "locked")

(***************************************************************************)
(* Properties of the task manager                                          *)
(***************************************************************************)
\* the instances whose goroutine has not finished
Unfinished == {i \in 1..Len(tmInst) : ~tmInst[i].done}

RejectedStart == tmLast'.op = "start" /\ tmLast'.err /\ tmLeft' < tmLeft

C39_RunningStaysCancellable ==
    \A i \in Unfinished :
        ~tmInst[i].cancelled =>
            /\ tmInst[i].id \in DOMAIN tmTasks
            /\ tmTasks[tmInst[i].id] = i

\* what the controller holds for one origin: its limiter, its sliding-window
\* set and its counters
OriginState(lims, z, stats, d) ==
    [limiter |-> IF d \in DOMAIN lims THEN <<lims[d]>> ELSE <<>>,
     window |-> z[d],
     stat |-> IF d \in DOMAIN stats THEN <<stats[d]>> ELSE <<>>]

\* C32: an Allow or SetRate call for one origin leaves the limiter, the
\* sliding-window set and the per-origin counters of every other origin
\* unchanged.
C32_OriginsIndependent ==
    [][(AllowStep \/ SetRateStep) =>
          \A d \in Domains \ {lastOp'.domain} :
              OriginState(limiters', zset', domainStats', d)
                  = OriginState(limiters, zset, domainStats, d)]_vars

\* an admitted Allow call for one origin while another origin has a limiter, a
\* window entry and counters
C32_Witness ==
    /\ lastOp.op = "allow"
    /\ lastAllow.outcome = "ok"
    /\ \E d \in Domains \ {lastOp.domain} :
          /\ d \in DOMAIN limiters
          /\ d \in DOMAIN domainStats
          /\ zset[d] # EmptyMap

(***************************************************************************)
(* Properties of the first access to an origin                             *)
(***************************************************************************)
\* C31: for any interleaving of concurrent first Allow calls for one origin,
\* exactly one limiter is created, every call draws from the limiter in the
\* map, and together the calls admit at most burst requests at one instant.
C31_SingleLimiter ==
    /\ Len(gInst) <= 1
    /\ gMap = Len(gInst)
    /\ \A g \in Goroutines : gCall[g].pc = "have" => gCall[g].ref = gMap
    /\ gAdmitted <= rlConfig.DefaultBurst

\* a goroutine whose lookup missed holds the write lock after another created
\* the limiter, from which the whole burst has been admitted
C31_Witness ==
    /\ Len(gInst) = 1
    /\ gAdmitted = rlConfig.DefaultBurst
    /\ \E g \in Goroutines : gCall[g].pc = "locked"

(***************************************************************************)
(* Specifications                                                          *)
(***************************************************************************)
Init == InitRate /\ InitQueue /\ InitURL /\ InitProxy /\ InitLocks /\ InitTasks /\ InitGet

\* one component at work, the others at rest in one configuration
RateAtRest == rlConfig.WindowLimit = 1 /\ rlBudget.origins = Domains
QueueAtRest == qConfig.MaxRetries = 0 /\ qBudget.mayClose
URLAtRest == uRun.callers = Callers

InitRateOnly == Init /\ QueueAtRest /\ URLAtRest

InitQueueOnly == Init /\ RateAtRest /\ URLAtRest

InitURLOnly == Init /\ RateAtRest /\ QueueAtRest

SpecRate == InitRateOnly /\ [][NextRate]_vars

SpecQueue == InitQueueOnly /\ [][NextQueue]_vars

SpecURL == InitURLOnly /\ [][NextURL]_vars

InitAllAtRest == Init /\ RateAtRest /\ QueueAtRest /\ URLAtRest

SpecProxy == InitAllAtRest /\ [][NextProxy]_vars

SpecLocks == InitAllAtRest /\ [][NextLocks]_vars

SpecTasks == InitAllAtRest /\ [][NextTasks]_vars

SpecGet == InitAllAtRest /\ [][NextGet]_vars

\* the queue with goroutines that are scheduled and handlers that return
SpecQueueFair ==
    /\ InitQueueOnly
    /\ [][NextQueue]_vars
    /\ \A w \in Workers : WF_vars(WorkerLoop(w))

\* the queue with goroutines that are scheduled, a Close that runs on once
\* called, and handlers that may never return
SpecQueueClose ==
    /\ InitQueueOnly
    /\ [][NextQueue]_vars
    /\ \A w \in Workers : WF_vars(WorkerUntilHandler(w))
    /\ WF_vars(CloseRuns)

Next == NextRate \/ NextQueue \/ NextURL \/ NextProxy \/ NextLocks \/ NextTasks \/ NextGet

Spec == Init /\ [][Next]_vars

====
